---- MODULE Spec2Model ----
(***************************************************************************)
(* A model of SMAnalyzer's metrics-to-anomaly pipeline.                    *)
(*                                                                         *)
(*   Part 1  pkg/timeseries  Storage: Store, GetSeries, GetTimeRange,      *)
(*           GetLatestN, at the granularity of their lock operations,      *)
(*           run by concurrent goroutines (specification Spec; SpecLive    *)
(*           with fair scheduling).                                        *)
(*   Part 2  pkg/ml  ClusteringEngine.ExtractFeatures and its statistics,  *)
(*           as operators over exact rationals (specification SpecFeat).   *)
(*   Part 3  pkg/ml  ClusteringEngine.KMeans over float64 values kept      *)
(*           exact: rationals, roots, +Inf, -Inf, NaN (specification       *)
(*           SpecKM).                                                      *)
(*   Part 4  the anomaly Detector: LearnBaseline and DetectAnomalies over  *)
(*           the map of baselines (specification SpecDet); one call of     *)
(*           hasConverged (specification SpecConv).                        *)
(*   Part 5  the Detector called by several goroutines at once, at the     *)
(*           granularity of its map accesses (specification SpecRace).     *)
(***************************************************************************)
EXTENDS Integers, Sequences, FiniteSets, TLC

VARIABLES
    series,     \* Storage.series: composite key -> TimeSeries
    smutex,     \* Storage.mutex (sync.RWMutex)
    writing,    \* keys whose Points slice header is being assigned right now
    clock,      \* the reading time.Now() returns
    pc,         \* goroutine -> position in the method it runs
    args,       \* goroutine -> arguments of the call it runs
    local,      \* goroutine -> local variables and result of the call it runs
    nstores,    \* number of Store calls issued so far
    issued,     \* history: composite key -> number of Store calls issued to it
    seen,       \* history: reader -> states of its series since its call began
    fpoints,    \* ExtractFeatures: the points argument
    fwindow,    \* ExtractFeatures: the windowSize argument
    fout,       \* ExtractFeatures: the returned slice
    fpc,        \* ExtractFeatures: "ready" before the call, "done" after it
    kpoints,    \* KMeans: the points argument
    kconfig,    \* KMeans: the engine's KMeansConfig
    kout,       \* KMeans: the returned slice
    kpc,        \* KMeans: "ready" before the call, "done" after it
    dconfig,    \* Detector.config, with the KMeansConfig of its clusteringEngine
    baselines,  \* Detector.baselines: service name -> clusters
    dpc,        \* Detector: "idle", or "returned" when a call has just returned
    dcall,      \* Detector: the call that has just returned, and its results
    learned,    \* history: service name -> points of its last successful LearnBaseline
    holdCentroids, \* hasConverged: the oldCentroids argument
    hclusters,  \* hasConverged: the clusters argument
    hout,       \* hasConverged: the returned bool
    hpc,        \* hasConverged: "ready" before the call, "done" after it
    gpc,        \* Detector goroutine -> position in the method it runs
    gcall,      \* Detector goroutine -> arguments, locals and results of its call
    racing,     \* Detector goroutines whose access to d.baselines overlaps a write
    crashed     \* the runtime has stopped the process: concurrent map access

vars == <<series, smutex, writing, clock, pc, args, local, nstores, issued, seen,
          fpoints, fwindow, fout, fpc, kpoints, kconfig, kout, kpc,
          dconfig, baselines, dpc, dcall, learned,
          holdCentroids, hclusters, hout, hpc,
          gpc, gcall, racing, crashed>>

storeVars == <<series, smutex, writing, clock, pc, args, local, nstores, issued, seen>>
featVars == <<fpoints, fwindow, fout, fpc>>
kmVars == <<kpoints, kconfig, kout, kpc>>
detVars == <<dconfig, baselines, dpc, dcall, learned>>
hcVars == <<holdCentroids, hclusters, hout, hpc>>
raceVars == <<gpc, gcall, racing, crashed>>
mlVars == <<kmVars, detVars, hcVars, raceVars>>

-----------------------------------------------------------------------------
(* Bounds of the model *)

MaxStores == 2
MaxClock == 1
MaxN == 2
MaxLen == 4
MaxWindow == 3
MaxKPoints == 3
MaxK == 2
MaxKIter == 2
MaxLatest == 5

Writers == {"w1", "w2"}
Readers == {"r1"}
Threads == Writers \cup Readers
None == "none"

\* (serviceName, metric) pairs the goroutines use; two of them share one
\* composite key, the third has a key of its own.
Targets == { <<"a", "b:c">>, <<"a:b", "c">>, <<"a", "c">> }
\* the (value, labels) each writer passes to Store
PayloadOf(t) == IF t = "w1" THEN <<100, [env |-> "test"]>> ELSE <<200, [env |-> "prod"]>>
ReadOps == {"GetSeries", "GetTimeRange", "GetLatestN"}
NArgs == 0..MaxN
\* start and end of GetTimeRange: before, at and after every clock reading
StartArgs == -1..(MaxClock - 1)
EndArgs == 1..(MaxClock + 1)

Min(a, b) == IF a <= b THEN a ELSE b
Max(a, b) == IF a >= b THEN a ELSE b

-----------------------------------------------------------------------------
(* Part 1: pkg/timeseries *)

\* key := serviceName + ":" + metric
Key(serviceName, metric) == serviceName \o ":" \o metric

Keys == { Key(t[1], t[2]) : t \in Targets }

\* DataPoint{Timestamp: ..., Value: value, Labels: labels}
DataPointNoLabels(timestamp, value, labels) ==
    [Timestamp |-> timestamp, Value |-> value, Labels |-> [env |-> ""]]
DataPoint(timestamp, value, labels) ==
    [Timestamp |-> timestamp, Value |-> value, Labels |-> labels]

\* the zero value of sync.RWMutex: held by no writer and no reader
FreeMutex == [writer |-> None, readers |-> {}]

\* &TimeSeries{ServiceName, Metric, Points: make([]DataPoint, 0)}, mutex unlocked
NewTimeSeries(serviceName, metric) ==
    [ServiceName |-> serviceName, Metric |-> metric, Points |-> <<>>,
     mutex |-> FreeMutex]

\* sync.RWMutex.Lock returns once no writer and no reader holds the mutex
CanLockNoWait(m) == TRUE
CanLock(m) == m.writer = None /\ m.readers = {}
\* sync.RWMutex.RLock returns once no writer holds the mutex
CanRLockNoWait(m) == TRUE
CanRLock(m) == m.writer = None

Lock(m, t) == [m EXCEPT !.writer = t]
\* sync.RWMutex.Unlock; an Unlock that releases nothing
UnlockForgotten(m) == m
Unlock(m) == [m EXCEPT !.writer = None]
RLock(m, t) == [m EXCEPT !.readers = @ \cup {t}]
RUnlock(m, t) == [m EXCEPT !.readers = @ \ {t}]

\* s.series[key] == nil
IsNilAlways(s, key) == TRUE
IsNil(s, key) == key \notin DOMAIN s

\* series, exists := s.series[key]: a map read leaves the map as it is
LookupCreates(s, key) ==
    IF key \in DOMAIN s THEN s
    ELSE [k \in DOMAIN s \cup {key} |-> IF k = key THEN NewTimeSeries("", "") ELSE s[k]]
Lookup(s, key) == s

\* append(s.series[key].Points, point)
AppendFront(points, point) == <<point>> \o points
AppendPoint(points, point) == Append(points, point)

\* point.Timestamp.After(start) && point.Timestamp.Before(end)
InRangeClosed(point, start, end) == point.Timestamp >= start /\ point.Timestamp <= end
InRange(point, start, end) == point.Timestamp > start /\ point.Timestamp < end

\* GetTimeRange: for _, point := range series.Points { if ... { result = append(result, point) } }
RECURSIVE TimeRangeOf(_, _, _)
TimeRangeOf(points, start, end) ==
    IF points = <<>> THEN <<>>
    ELSE IF InRange(Head(points), start, end)
         THEN <<Head(points)>> \o TimeRangeOf(Tail(points), start, end)
         ELSE TimeRangeOf(Tail(points), start, end)

\* GetLatestN: if len(points) <= n { return points }; return points[len(points)-n:]
LatestNFirst(points, n) ==
    IF Len(points) <= n THEN points ELSE SubSeq(points, 1, n)
LatestNOf(points, n) ==
    IF Len(points) <= n THEN points
    ELSE SubSeq(points, Len(points) - n + 1, Len(points))

NoArgs == [op |-> "none", serviceName |-> "", metric |-> "", value |-> 0,
           labels |-> [env |-> ""], n |-> 0, start |-> 0, end |-> 0]
NoPoint == DataPoint(0, 0, [env |-> ""])
NoLocal == [key |-> "", isNil |-> FALSE, point |-> NoPoint, exists |-> FALSE,
            result |-> <<>>, torn |-> FALSE]

\* NewStorage(): an empty map, an unlocked mutex; no goroutine is in a call
StoreInit ==
    /\ series = [k \in {} |-> NewTimeSeries("", "")]
    /\ smutex = FreeMutex
    /\ writing = {}
    /\ clock = 0
    /\ pc = [t \in Threads |-> "idle"]
    /\ args = [t \in Threads |-> NoArgs]
    /\ local = [t \in Threads |-> NoLocal]
    /\ nstores = 0
    /\ issued = [k \in Keys |-> 0]
    /\ seen = [r \in Readers |-> {}]

\* the point sequence a key holds; a key without a series holds no points
PointsOf(s, k) == IF k \in DOMAIN s THEN s[k].Points ELSE <<>>

\* history: every reader in a call on key k has seen the new state of k
Observe(k, points) ==
    [r \in Readers |->
        IF pc[r] # "idle" /\ local[r].key = k THEN seen[r] \cup {points}
        ELSE seen[r]]

\* time.Now(): Go's monotonic clock never runs backwards, and two readings
\* taken one after the other can be equal (the clock has a finite resolution)
NowReadings == { now \in clock..(clock + 1) : now <= MaxClock }

-----------------------------------------------------------------------------
(* Storage.Store *)

\* a goroutine calls Store(serviceName, metric, value, labels); key := ...
StoreCall(t, target, payload) ==
    /\ pc[t] = "idle"
    /\ nstores < MaxStores
    /\ nstores' = nstores + 1
    /\ args' = [args EXCEPT ![t] = [NoArgs EXCEPT !.op = "Store",
                    !.serviceName = target[1], !.metric = target[2],
                    !.value = payload[1], !.labels = payload[2]]]
    /\ local' = [local EXCEPT ![t] = [NoLocal EXCEPT !.key = Key(target[1], target[2])]]
    /\ issued' = [issued EXCEPT ![Key(target[1], target[2])] = @ + 1]
    /\ pc' = [pc EXCEPT ![t] = "lock"]
    /\ UNCHANGED <<series, smutex, writing, clock, seen, featVars, mlVars>>

\* s.mutex.Lock();  if s.series[key] == nil
StoreLock(t) ==
    /\ pc[t] = "lock"
    /\ CanLock(smutex)
    /\ smutex' = Lock(smutex, t)
    /\ local' = [local EXCEPT ![t].isNil = IsNil(series, local[t].key)]
    /\ pc' = [pc EXCEPT ![t] = "create"]
    /\ UNCHANGED <<series, writing, clock, args, nstores, issued, seen, featVars, mlVars>>

\* { s.series[key] = &TimeSeries{...} };  point := DataPoint{time.Now(), value, labels}
StoreCreate(t, now) ==
    /\ pc[t] = "create"
    /\ clock' = now
    /\ IF local[t].isNil
       THEN /\ series' = [k \in DOMAIN series \cup {local[t].key} |->
                            IF k = local[t].key
                            THEN NewTimeSeries(args[t].serviceName, args[t].metric)
                            ELSE series[k]]
            /\ seen' = Observe(local[t].key, <<>>)
       ELSE UNCHANGED <<series, seen>>
    /\ local' = [local EXCEPT ![t].point =
                    DataPoint(now, args[t].value, args[t].labels)]
    /\ pc' = [pc EXCEPT ![t] = "lockSeries"]
    /\ UNCHANGED <<smutex, writing, args, nstores, issued, featVars, mlVars>>

\* s.series[key].mutex.Lock()
StoreLockSeries(t) ==
    /\ pc[t] = "lockSeries"
    /\ CanLock(series[local[t].key].mutex)
    /\ series' = [series EXCEPT ![local[t].key].mutex = Lock(@, t)]
    /\ pc' = [pc EXCEPT ![t] = "append"]
    /\ UNCHANGED <<smutex, writing, clock, args, local, nstores, issued, seen, featVars, mlVars>>

\* s.series[key].Points = append(s.series[key].Points, point): the assignment
\* of the three-word slice header begins ...
StoreAppendBegin(t) ==
    /\ pc[t] = "append"
    /\ writing' = writing \cup {local[t].key}
    /\ pc' = [pc EXCEPT ![t] = "assign"]
    /\ UNCHANGED <<series, smutex, clock, args, local, nstores, issued, seen, featVars, mlVars>>

\* ... and ends
StoreAppendEnd(t) ==
    /\ pc[t] = "assign"
    /\ series' = [series EXCEPT ![local[t].key].Points = AppendPoint(@, local[t].point)]
    /\ writing' = writing \ {local[t].key}
    /\ seen' = Observe(local[t].key, series'[local[t].key].Points)
    /\ pc' = [pc EXCEPT ![t] = "unlockSeries"]
    /\ UNCHANGED <<smutex, clock, args, local, nstores, issued, featVars, mlVars>>

\* s.series[key].mutex.Unlock()
StoreUnlockSeries(t) ==
    /\ pc[t] = "unlockSeries"
    /\ series' = [series EXCEPT ![local[t].key].mutex = Unlock(@)]
    /\ pc' = [pc EXCEPT ![t] = "unlock"]
    /\ UNCHANGED <<smutex, writing, clock, args, local, nstores, issued, seen, featVars, mlVars>>

\* the deferred s.mutex.Unlock(), and the return
StoreReturn(t) ==
    /\ pc[t] = "unlock"
    /\ smutex' = Unlock(smutex)
    /\ pc' = [pc EXCEPT ![t] = "idle"]
    /\ args' = [args EXCEPT ![t] = NoArgs]
    /\ local' = [local EXCEPT ![t] = NoLocal]
    /\ UNCHANGED <<series, writing, clock, nstores, issued, seen, featVars, mlVars>>

-----------------------------------------------------------------------------
(* Storage.GetSeries, Storage.GetTimeRange, Storage.GetLatestN *)

\* a goroutine calls GetSeries, GetTimeRange or GetLatestN on (serviceName,
\* metric); key := ...  GetTimeRange and GetLatestN begin with a call of
\* GetSeries(serviceName, metric); their other arguments (start and end, n) are
\* first read under the series lock and are drawn there.
ReadCall(t, op, target) ==
    /\ pc[t] = "idle"
    /\ args' = [args EXCEPT ![t] = [NoArgs EXCEPT !.op = op,
                    !.serviceName = target[1], !.metric = target[2]]]
    /\ local' = [local EXCEPT ![t] = [NoLocal EXCEPT !.key = Key(target[1], target[2])]]
    /\ seen' = [seen EXCEPT ![t] = {PointsOf(series, Key(target[1], target[2]))}]
    /\ pc' = [pc EXCEPT ![t] = "rlock"]
    /\ UNCHANGED <<series, smutex, writing, clock, nstores, issued, featVars, mlVars>>

\* GetSeries: s.mutex.RLock();  series, exists := s.series[key]
GetSeriesRLock(t) ==
    /\ pc[t] = "rlock"
    /\ CanRLock(smutex)
    /\ smutex' = RLock(smutex, t)
    /\ series' = Lookup(series, local[t].key)
    /\ local' = [local EXCEPT ![t].exists = (local[t].key \in DOMAIN series)]
    /\ pc' = [pc EXCEPT ![t] = "runlock"]
    /\ UNCHANGED <<writing, clock, args, nstores, issued, seen, featVars, mlVars>>

\* GetSeries: the deferred s.mutex.RUnlock(), and return series, exists.
\* GetSeries itself returns to its caller; GetTimeRange and GetLatestN return
\* nil if !exists, and go on to lock the series otherwise.
GetSeriesReturn(t) ==
    /\ pc[t] = "runlock"
    /\ smutex' = RUnlock(smutex, t)
    /\ IF args[t].op = "GetSeries" \/ ~local[t].exists
       THEN /\ pc' = [pc EXCEPT ![t] = "idle"]
            /\ args' = [args EXCEPT ![t] = NoArgs]
            /\ local' = [local EXCEPT ![t] = NoLocal]
            /\ seen' = [seen EXCEPT ![t] = {}]
       ELSE /\ pc' = [pc EXCEPT ![t] = "rlockSeries"]
            /\ UNCHANGED <<args, local, seen>>
    /\ UNCHANGED <<series, writing, clock, nstores, issued, featVars, mlVars>>

\* series.mutex.RLock()
ReadRLockSeries(t) ==
    /\ pc[t] = "rlockSeries"
    /\ CanRLock(series[local[t].key].mutex)
    /\ series' = [series EXCEPT ![local[t].key].mutex = RLock(@, t)]
    /\ pc' = [pc EXCEPT ![t] = "read"]
    /\ UNCHANGED <<smutex, writing, clock, args, local, nstores, issued, seen, featVars, mlVars>>

\* what the method in call a computes from series.Points
ReadResult(a, points) ==
    IF a.op = "GetTimeRange" THEN TimeRangeOf(points, a.start, a.end)
    ELSE LatestNOf(points, a.n)

\* The read of series.Points by the call with arguments a.  A read while the
\* slice header is being assigned is a data race: it may see the old header,
\* the new one, or a mix of the two.
ReadPoints(t, a) ==
    /\ pc[t] = "read"
    /\ args' = [args EXCEPT ![t] = a]
    /\ IF local[t].key \in writing
       THEN \E w \in Writers :
              /\ pc[w] = "assign" /\ local[w].key = local[t].key
              /\ \E torn \in BOOLEAN, new \in BOOLEAN :
                   local' = [local EXCEPT
                       ![t].torn = torn,
                       ![t].result = ReadResult(a,
                           IF new THEN AppendPoint(series[local[t].key].Points, local[w].point)
                           ELSE series[local[t].key].Points)]
       ELSE local' = [local EXCEPT
                ![t].result = ReadResult(a, series[local[t].key].Points)]
    /\ pc' = [pc EXCEPT ![t] = "runlockSeries"]
    /\ UNCHANGED <<series, smutex, writing, clock, nstores, issued, seen, featVars, mlVars>>

\* GetTimeRange(serviceName, metric, start, end): the loop over series.Points
GetTimeRangeRead(t, start, end) ==
    /\ args[t].op = "GetTimeRange"
    /\ ReadPoints(t, [args[t] EXCEPT !.start = start, !.end = end])

\* GetLatestN(serviceName, metric, n): points := series.Points and the slicing
GetLatestNRead(t, n) ==
    /\ args[t].op = "GetLatestN"
    /\ ReadPoints(t, [args[t] EXCEPT !.n = n])

\* the deferred series.mutex.RUnlock(), and the return of the result
ReadReturn(t) ==
    /\ pc[t] = "runlockSeries"
    /\ series' = [series EXCEPT ![local[t].key].mutex = RUnlock(@, t)]
    /\ pc' = [pc EXCEPT ![t] = "idle"]
    /\ args' = [args EXCEPT ![t] = NoArgs]
    /\ local' = [local EXCEPT ![t] = NoLocal]
    /\ seen' = [seen EXCEPT ![t] = {}]
    /\ UNCHANGED <<smutex, writing, clock, nstores, issued, featVars, mlVars>>

-----------------------------------------------------------------------------
(* Part 2: pkg/ml, ClusteringEngine.ExtractFeatures *)

(***************************************************************************)
(* float64 values.  A finite value is an exact rational n/d in lowest      *)
(* terms (rounding is not modelled); the square root of a rational that is *)
(* no square of a rational is kept as that root; a division by zero gives  *)
(* +Inf, -Inf or NaN as IEEE 754 does.                                     *)
(***************************************************************************)
Abs(x) == IF x < 0 THEN -x ELSE x

\* the one element of a set of one element; it serves to name a value that
\* is computed once
The(S) == CHOOSE v \in S : TRUE

RECURSIVE Gcd(_, _)
Gcd(a, b) == IF b = 0 THEN a ELSE The({ Gcd(b, r) : r \in {a % b} })

Fin(n, d) ==
    The({ [k |-> "fin", n |-> (sgn * x) \div g, d |-> (sgn * y) \div g] :
            x \in {n}, y \in {d},
            g \in {Gcd(Abs(n), Abs(d))}, sgn \in {IF d < 0 THEN -1 ELSE 1} })
FInt(x) == Fin(x, 1)
PosInf == [k |-> "+Inf", n |-> 0, d |-> 0]
NegInf == [k |-> "-Inf", n |-> 0, d |-> 0]
NaN == [k |-> "NaN", n |-> 0, d |-> 0]

\* sums and products cancel common factors first, to stay within TLC's integers
Lcm(a, b) == (a \div Gcd(a, b)) * b
FAdd(a, b) ==
    LET d == Lcm(a.d, b.d)
    IN Fin(a.n * (d \div a.d) + b.n * (d \div b.d), d)
FNeg(a) == [k |-> "fin", n |-> -a.n, d |-> a.d]
FSub(a, b) == FAdd(a, FNeg(b))
FMul(a, b) ==
    LET g1 == Gcd(Abs(a.n), b.d)
        g2 == Gcd(Abs(b.n), a.d)
    IN Fin((a.n \div g1) * (b.n \div g2), (a.d \div g2) * (b.d \div g1))
\* a / b for finite a and b
FDiv(a, b) ==
    IF b.n > 0 THEN FMul(a, [k |-> "fin", n |-> b.d, d |-> b.n])
    ELSE IF b.n < 0 THEN FMul(a, [k |-> "fin", n |-> -b.d, d |-> -b.n])
    ELSE IF a.n > 0 THEN PosInf
    ELSE IF a.n < 0 THEN NegInf
    ELSE NaN

\* the whole part of the square root of x >= 0, searched between low and high
RECURSIVE RootBetween(_, _, _)
RootBetween(x, low, high) ==
    IF high - low <= 1 THEN low
    ELSE The({ IF mid * mid <= x THEN RootBetween(x, mid, high) ELSE RootBetween(x, low, mid) :
                 mid \in {(low + high) \div 2} })
Root(x) == RootBetween(x, 0, Min(x, 46340) + 1)
IsSquare(x) == Root(x) * Root(x) = x
\* math.Sqrt(a) for finite a >= 0
FSqrt(a) ==
    IF IsSquare(a.n) /\ IsSquare(a.d) THEN Fin(Root(a.n), Root(a.d))
    ELSE [k |-> "sqrt", n |-> a.n, d |-> a.d]

\* sum := 0.0; for _, p := range points { sum += p.Value }
RECURSIVE SumValues(_)
SumValues(points) ==
    IF points = <<>> THEN FInt(0)
    ELSE FAdd(SumValues(SubSeq(points, 1, Len(points) - 1)),
              FInt(points[Len(points)].Value))

calculateMean(points) ==
    IF Len(points) = 0 THEN FInt(0)
    ELSE FDiv(SumValues(points), FInt(Len(points)))

\* sumSquaredDiff: for _, p := range points { diff := p.Value - mean; sum += diff * diff }
RECURSIVE SumSquaredDiff(_, _)
SumSquaredDiff(values, mean) ==
    IF values = <<>> THEN FInt(0)
    ELSE LET diff == FSub(values[Len(values)], mean)
         IN FAdd(SumSquaredDiff(SubSeq(values, 1, Len(values) - 1), mean),
                 FMul(diff, diff))

calculateStdDev(points) ==
    IF Len(points) <= 1 THEN FInt(0)
    ELSE LET mean == calculateMean(points)
             values == [i \in 1..Len(points) |-> FInt(points[i].Value)]
         IN FSqrt(FDiv(SumSquaredDiff(values, mean), FInt(Len(points) - 1)))

calculateTrend(points) ==
    IF Len(points) < 2 THEN FInt(0)
    ELSE LET first == FInt(points[1].Value)
             last == FInt(points[Len(points)].Value)
         IN FDiv(FSub(last, first), first)

\* mean := 0.0; for _, change := range changes { mean += change }
RECURSIVE SumFloats(_)
SumFloats(values) ==
    IF values = <<>> THEN FInt(0)
    ELSE FAdd(SumFloats(SubSeq(values, 1, Len(values) - 1)), values[Len(values)])

calculateVolatility(points) ==
    IF Len(points) < 2 THEN FInt(0)
    ELSE LET changes == [i \in 1..(Len(points) - 1) |->
                            IF points[i].Value # 0
                            THEN FDiv(FSub(FInt(points[i + 1].Value), FInt(points[i].Value)),
                                      FInt(points[i].Value))
                            ELSE FInt(0)]
             mean == FDiv(SumFloats(changes), FInt(Len(changes)))
             variance == FDiv(SumSquaredDiff(changes, mean), FInt(Len(changes)))
         IN FSqrt(variance)

\* window := points[i-windowSize : i], for the loop index i counted from 0
WindowInclusive(points, i, windowSize) == SubSeq(points, i - windowSize + 2, i + 1)
Window(points, i, windowSize) == SubSeq(points, i - windowSize + 1, i)

\* the ClusterPoint made at loop index i; Original: &points[i], kept as the
\* position of points[i] in points, counted from 1
FeatureAt(points, i, windowSize) ==
    LET window == Window(points, i, windowSize)
    IN [Features |-> <<calculateMean(window), calculateStdDev(window),
                       calculateTrend(window), calculateVolatility(window)>>,
        Label |-> "",
        Original |-> i + 1]

\* for i := windowSize; i < len(points); i++ { ...; features = append(features, feature) }
RECURSIVE ExtractFrom(_, _, _)
ExtractFrom(points, i, windowSize) ==
    IF i < Len(points)
    THEN <<FeatureAt(points, i, windowSize)>> \o ExtractFrom(points, i + 1, windowSize)
    ELSE <<>>

ExtractFeatures(points, windowSize) == ExtractFrom(points, windowSize, windowSize)

\* the slice expression points[low : high] is in range (it panics otherwise)
SliceInRange(points, low, high) == 0 <= low /\ low <= high /\ high <= Len(points)

\* ExtractFeatures(points, windowSize) panics at one of its slice expressions
ExtractPanics(points, windowSize) ==
    \E i \in windowSize..(Len(points) - 1) : ~SliceInRange(points, i - windowSize, i)

\* the values of the points ExtractFeatures is called on
FeatValues == {0, 10, 12}
\* the input of TestClusteringEngine_ExtractFeatures
TestValues == <<10, 12, 11, 13, 14, 15>>
TestWindow == 3

\* points with the given values; their timestamps tell them apart
PointsWith(values) ==
    [i \in 1..Len(values) |-> DataPoint(i, values[i], [env |-> ""])]

\* windowSize is an int: the counts of samples 0..MaxWindow, and a negative one
FeatWindows == -1..MaxWindow
FeatInputs ==
    { <<PointsWith(values), w>> :
        values \in UNION { [1..m -> FeatValues] : m \in 0..MaxLen }, w \in FeatWindows }
    \cup { <<PointsWith(TestValues), TestWindow>> }

\* no call of ExtractFeatures
FeatIdle ==
    /\ fpoints = <<>>
    /\ fwindow = 0
    /\ fout = <<>>
    /\ fpc = "ready"

\* a caller is about to call ExtractFeatures(points, windowSize)
FeatInit ==
    /\ \E in \in FeatInputs : fpoints = in[1] /\ fwindow = in[2]
    /\ fout = <<>>
    /\ fpc = "ready"

\* features := ce.ExtractFeatures(points, windowSize)
ExtractCall ==
    /\ fpc = "ready"
    /\ IF ExtractPanics(fpoints, fwindow)
       THEN fpc' = "panic" /\ UNCHANGED fout
       ELSE fpc' = "done" /\ fout' = ExtractFeatures(fpoints, fwindow)
    /\ UNCHANGED <<fpoints, fwindow, storeVars, mlVars>>

-----------------------------------------------------------------------------
(* Part 3: pkg/ml, ClusteringEngine.KMeans *)

(***************************************************************************)
(* float64 arithmetic on every value: the finite rationals, the roots      *)
(* math.Sqrt leaves (a record of kind "sqrt" with n < 0 is the negated     *)
(* root of -n/d), +Inf, -Inf and NaN.  A sum of two roots that is no       *)
(* rational multiple of one root has no exact form here and is of kind     *)
(* "irr"; the inputs of the model keep clear of it.  The sign of a zero is *)
(* not kept.                                                               *)
(***************************************************************************)
Irr == [k |-> "irr", n |-> 0, d |-> 0]
IsNaN(x) == x.k = "NaN"
IsInf(x) == x.k \in {"+Inf", "-Inf"}
IsFinite(x) == x.k \in {"fin", "sqrt"}
\* -1, 0 or 1
Sign(x) ==
    IF x.k = "+Inf" THEN 1
    ELSE IF x.k = "-Inf" THEN -1
    ELSE IF x.n > 0 THEN 1
    ELSE IF x.n < 0 THEN -1
    ELSE 0
\* the square of a finite value, a rational
Square(x) == IF x.k = "fin" THEN FMul(x, x) ELSE Fin(Abs(x.n), x.d)
Neg(x) ==
    IF x.k = "+Inf" THEN NegInf
    ELSE IF x.k = "-Inf" THEN PosInf
    ELSE IF IsFinite(x) THEN [x EXCEPT !.n = -x.n]
    ELSE x
\* the value of sign sgn whose square is the rational q
SignedRoot(sgn, q) ==
    IF sgn = 0 \/ q.n = 0 THEN FInt(0)
    ELSE IF sgn > 0 THEN FSqrt(q)
    ELSE Neg(FSqrt(q))
\* a < b for finite rationals
FLess(a, b) == a.n * b.d < b.n * a.d
\* x + y for finite x and y, one of them a root
RootAdd(x, y) ==
    IF Sign(x) = 0 THEN y
    ELSE IF Sign(y) = 0 THEN x
    ELSE LET ratio == FSqrt(FDiv(Square(y), Square(x)))
         IN IF ratio.k # "fin" THEN Irr
            ELSE LET factor == FAdd(FInt(1), FMul(FInt(Sign(x) * Sign(y)), ratio))
                 IN SignedRoot(Sign(x) * Sign(factor), FMul(Square(x), Square(factor)))

\* The operations take their operands by value: a and b are bound, once, to
\* the values of the operand expressions.
Add(a, b) ==
    The({ IF x.k = "irr" \/ y.k = "irr" THEN Irr
          ELSE IF IsNaN(x) \/ IsNaN(y) THEN NaN
          ELSE IF IsInf(x) /\ IsInf(y) THEN (IF x.k = y.k THEN x ELSE NaN)
          ELSE IF IsInf(x) THEN x
          ELSE IF IsInf(y) THEN y
          ELSE IF x.k = "fin" /\ y.k = "fin" THEN FAdd(x, y)
          ELSE RootAdd(x, y) : x \in {a}, y \in {b} })
Sub(x, y) == Add(x, Neg(y))
Mul(a, b) ==
    The({ IF x.k = "irr" \/ y.k = "irr" THEN Irr
          ELSE IF IsNaN(x) \/ IsNaN(y) THEN NaN
          ELSE IF IsInf(x) \/ IsInf(y)
               THEN (IF Sign(x) * Sign(y) = 0 THEN NaN
                     ELSE IF Sign(x) * Sign(y) > 0 THEN PosInf ELSE NegInf)
          ELSE IF x.k = "fin" /\ y.k = "fin" THEN FMul(x, y)
          ELSE SignedRoot(Sign(x) * Sign(y), FMul(Square(x), Square(y)))
          : x \in {a}, y \in {b} })
Div(a, b) ==
    The({ IF x.k = "irr" \/ y.k = "irr" THEN Irr
          ELSE IF IsNaN(x) \/ IsNaN(y) THEN NaN
          ELSE IF IsInf(x) /\ IsInf(y) THEN NaN
          ELSE IF IsInf(x) THEN (IF Sign(x) * Sign(y) >= 0 THEN x ELSE Neg(x))
          ELSE IF IsInf(y) THEN FInt(0)
          ELSE IF Sign(y) = 0
               THEN (IF Sign(x) > 0 THEN PosInf ELSE IF Sign(x) < 0 THEN NegInf ELSE NaN)
          ELSE IF x.k = "fin" /\ y.k = "fin" THEN FDiv(x, y)
          ELSE SignedRoot(Sign(x) * Sign(y), FDiv(Square(x), Square(y)))
          : x \in {a}, y \in {b} })
\* math.Sqrt(a)
Sqrt(a) ==
    The({ IF x.k = "irr" THEN Irr
          ELSE IF IsNaN(x) \/ Sign(x) < 0 THEN NaN
          ELSE IF IsInf(x) THEN x
          ELSE IF x.k = "fin" THEN FSqrt(x)
          ELSE IF Sign(x) = 0 THEN FInt(0) ELSE Irr : x \in {a} })
\* a < b: false when either is NaN
Less(a, b) ==
    \E x \in {a}, y \in {b} :
        IF IsNaN(x) \/ IsNaN(y) THEN FALSE
        ELSE IF x.k = "+Inf" \/ y.k = "-Inf" THEN FALSE
        ELSE IF x.k = "-Inf" \/ y.k = "+Inf" THEN TRUE
        ELSE IF x.k = "fin" /\ y.k = "fin" THEN FLess(x, y)
        ELSE IF Sign(x) # Sign(y) THEN Sign(x) < Sign(y)
        ELSE IF Sign(x) > 0 THEN FLess(Square(x), Square(y))
        ELSE IF Sign(x) < 0 THEN FLess(Square(y), Square(x))
        ELSE FALSE
Greater(x, y) == Less(y, x)

\* sum += diff * diff, over the first m coordinates of a
RECURSIVE SumSquares(_, _, _)
SumSquares(a, b, m) ==
    IF m = 0 THEN FInt(0)
    ELSE The({ Add(SumSquares(a, b, m - 1), Mul(diff, diff)) : diff \in {Sub(a[m], b[m])} })

\* the sum runs over the coordinates of a; b has as many
euclideanDistance(a, b) == Sqrt(SumSquares(a, b, Len(a)))

\* pointIdx := i * len(points) / ce.config.K, for the cluster i counted from 0
SeedIndex(i, n, K) == (i * n) \div K

initializeClusters(points, K) ==
    [c \in 1..K |-> [Centroid |-> points[SeedIndex(c - 1, Len(points), K) + 1].Features,
                     Points |-> <<>>]]

\* the same scan taking cluster i when dist <= minDist: the last cluster at
\* the least distance wins
RECURSIVE NearestFromLast(_, _, _, _, _)
NearestFromLast(point, clusters, i, minDist, clusterIdx) ==
    IF i > Len(clusters) THEN clusterIdx
    ELSE The({ IF ~Less(minDist, dist)
               THEN NearestFromLast(point, clusters, i + 1, dist, i - 1)
               ELSE NearestFromLast(point, clusters, i + 1, minDist, clusterIdx) :
                 dist \in {euclideanDistance(point.Features, clusters[i].Centroid)} })
RECURSIVE NearestFrom(_, _, _, _, _)
NearestFrom(point, clusters, i, minDist, clusterIdx) ==
    IF i > Len(clusters) THEN clusterIdx
    ELSE The({ IF Less(dist, minDist)
               THEN NearestFrom(point, clusters, i + 1, dist, i - 1)
               ELSE NearestFrom(point, clusters, i + 1, minDist, clusterIdx) :
                 dist \in {euclideanDistance(point.Features, clusters[i].Centroid)} })

Nearest(point, clusters) == NearestFrom(point, clusters, 1, PosInf, 0)

\* clusters[clusterIdx].Points = append(clusters[clusterIdx].Points, point), for points[j..]
RECURSIVE AssignFrom(_, _, _)
AssignFrom(points, j, clusters) ==
    IF j > Len(points) THEN clusters
    ELSE The({ AssignFrom(points, j + 1, assigned) :
                 assigned \in {[clusters EXCEPT ![Nearest(points[j], clusters) + 1].Points =
                                    Append(@, points[j])]} })

AssignKeepingPoints(points, clusters) == AssignFrom(points, 1, clusters)
assignPointsToClusters(points, clusters) ==
    AssignFrom(points, 1, [c \in 1..Len(clusters) |-> [clusters[c] EXCEPT !.Points = <<>>]])

\* sum += point.Features[j], over points[..m]
RECURSIVE SumFeature(_, _, _)
SumFeature(points, j, m) ==
    IF m = 0 THEN FInt(0)
    ELSE Add(SumFeature(points, j, m - 1), points[m].Features[j])

updateCentroidsAll(clusters) ==
    [c \in 1..Len(clusters) |->
        [clusters[c] EXCEPT !.Centroid =
            [j \in 1..Len(clusters[c].Centroid) |->
                Div(SumFeature(clusters[c].Points, j, Len(clusters[c].Points)),
                    FInt(Len(clusters[c].Points)))]]]
updateCentroids(clusters) ==
    [c \in 1..Len(clusters) |->
        IF Len(clusters[c].Points) = 0 THEN clusters[c]
        ELSE [clusters[c] EXCEPT !.Centroid =
                [j \in 1..Len(clusters[c].Centroid) |->
                    Div(SumFeature(clusters[c].Points, j, Len(clusters[c].Points)),
                        FInt(Len(clusters[c].Points)))]]]

copyCentroids(clusters) == [c \in 1..Len(clusters) |-> clusters[c].Centroid]

hasConvergedExact(oldCentroids, clusters, Tolerance) ==
    \A c \in 1..Len(clusters) :
        ~Greater(euclideanDistance(oldCentroids[c], clusters[c].Centroid), FInt(0))
hasConverged(oldCentroids, clusters, Tolerance) ==
    \A c \in 1..Len(clusters) :
        ~Greater(euclideanDistance(oldCentroids[c], clusters[c].Centroid), Tolerance)

\* the same loop with the steps of an iteration in the order update, assignment
RECURSIVE KMeansLoopAssignLast(_, _, _, _)
KMeansLoopAssignLast(points, clusters, iter, config) ==
    IF iter >= config.MaxIter THEN clusters
    ELSE The({ IF hasConverged(oldCentroids, updated, config.Tolerance) THEN updated
               ELSE KMeansLoopAssignLast(points, updated, iter + 1, config) :
                 oldCentroids \in {copyCentroids(clusters)},
                 updated \in {assignPointsToClusters(points,
                                  updateCentroids(assignPointsToClusters(points, clusters)))} })
\* for iter := 0; iter < ce.config.MaxIter; iter++ { ... }
RECURSIVE KMeansLoop(_, _, _, _)
KMeansLoop(points, clusters, iter, config) ==
    IF iter >= config.MaxIter THEN clusters
    ELSE The({ IF hasConverged(oldCentroids, updated, config.Tolerance) THEN updated
               ELSE KMeansLoop(points, updated, iter + 1, config) :
                 oldCentroids \in {copyCentroids(clusters)},
                 updated \in {updateCentroids(assignPointsToClusters(points, clusters))} })

\* KMeans returns nil
KMeansNilNever(points, config) == FALSE
KMeansNil(points, config) == Len(points) < config.K

\* KMeans panics: make([]Cluster, K) with K < 0, points[pointIdx] past the end
\* of points, or clusters[clusterIdx] with no cluster at all
KMeansPanics(points, config) ==
    /\ ~KMeansNil(points, config)
    /\ \/ config.K < 0
       \/ \E i \in 0..(config.K - 1) : SeedIndex(i, Len(points), config.K) >= Len(points)
       \/ config.K = 0 /\ config.MaxIter > 0 /\ Len(points) > 0

\* the clusters KMeans returns; none when it returns nil
KMeans(points, config) ==
    IF KMeansNil(points, config) THEN <<>>
    ELSE KMeansLoop(points, initializeClusters(points, config.K), 0, config)

\* the feature vectors KMeans is called on: two coordinates, one of them
\* possibly no number
KVectors ==
    { <<FInt(1), FInt(1)>>, <<FInt(2), FInt(2)>>, <<FInt(10), FInt(10)>>, <<FInt(0), NaN>> }
\* the input of TestClusteringEngine_KMeans
TestVectors ==
    << <<FInt(1), FInt(1)>>, <<Fin(3, 2), Fin(3, 2)>>, <<FInt(2), FInt(2)>>,
       <<FInt(10), FInt(10)>>, <<Fin(21, 2), Fin(21, 2)>>, <<FInt(11), FInt(11)>> >>
TestK == 2
TestMaxIter == 10
TestConfig == [K |-> TestK, MaxIter |-> TestMaxIter, Tolerance |-> Fin(1, 10)]
\* Tolerance of DefaultConfig
DefaultTolerance == Fin(1, 100)

\* cluster points with the given feature vectors; Original tells them apart
ClusterPointsWith(vectors) ==
    [i \in 1..Len(vectors) |-> [Features |-> vectors[i], Label |-> "", Original |-> i]]

\* K and MaxIter are ints: the counts 0..MaxK and 0..MaxKIter, and a negative K
KConfigs ==
    { [K |-> K, MaxIter |-> m, Tolerance |-> DefaultTolerance] :
        K \in -1..MaxK, m \in 0..MaxKIter }
KInputs ==
    { <<ClusterPointsWith(vectors), c>> :
        vectors \in UNION { [1..m -> KVectors] : m \in 0..MaxKPoints }, c \in KConfigs }
    \cup { <<ClusterPointsWith(TestVectors), TestConfig>> }

NoConfig == [K |-> 0, MaxIter |-> 0, Tolerance |-> FInt(0)]
NoClusters == [nil |-> TRUE, clusters |-> <<>>]

\* no call of KMeans
KMIdle ==
    /\ kpoints = <<>>
    /\ kconfig = NoConfig
    /\ kout = NoClusters
    /\ kpc = "ready"

\* a caller is about to call NewClusteringEngine(config).KMeans(points)
KMInit ==
    /\ \E in \in KInputs : kpoints = in[1] /\ kconfig = in[2]
    /\ kout = NoClusters
    /\ kpc = "ready"

\* clusters := ce.KMeans(points)
KMeansCall ==
    /\ kpc = "ready"
    /\ IF KMeansPanics(kpoints, kconfig)
       THEN kpc' = "panic" /\ UNCHANGED kout
       ELSE /\ kpc' = "done"
            /\ kout' = [nil |-> KMeansNil(kpoints, kconfig),
                        clusters |-> KMeans(kpoints, kconfig)]
    /\ UNCHANGED <<kpoints, kconfig, storeVars, featVars, detVars, hcVars, raceVars>>

\* config := KMeansConfig{Tolerance: 0.1}
ConvTolerance == Fin(1, 10)
\* oldCentroids of TestClusteringEngine_HasConverged
ConvOld == << <<FInt(1), FInt(1)>>, <<FInt(2), FInt(2)>> >>
\* what a centroid moves by in each dimension: the 0.05 and the 0.01 of the
\* test, and moves on both sides of Tolerance / sqrt(2)
ConvMoves ==
    { FInt(0), Fin(1, 100), Fin(1, 20), Fin(-1, 20), Fin(7, 100), Fin(71, 1000),
      Fin(1, 10), FInt(1) }
\* clusters whose centroids are those of ConvOld moved by the given moves
ConvClusters(moves) ==
    [c \in 1..Len(ConvOld) |->
        [Centroid |-> [j \in 1..Len(ConvOld[c]) |-> Add(ConvOld[c][j], moves[c])],
         Points |-> <<>>]]
ConvInputs == { ConvClusters(moves) : moves \in [1..Len(ConvOld) -> ConvMoves] }

\* no call of hasConverged
ConvIdle ==
    /\ holdCentroids = <<>>
    /\ hclusters = <<>>
    /\ hout = FALSE
    /\ hpc = "ready"

\* a caller is about to call hasConverged(oldCentroids, clusters)
ConvInit ==
    /\ holdCentroids = ConvOld
    /\ hclusters \in ConvInputs
    /\ hout = FALSE
    /\ hpc = "ready"

\* converged := engine.hasConverged(oldCentroids, clusters)
HasConvergedCall ==
    /\ hpc = "ready"
    /\ hpc' = "done"
    /\ hout' = hasConverged(holdCentroids, hclusters, ConvTolerance)
    /\ UNCHANGED <<holdCentroids, hclusters, storeVars, featVars, kmVars, detVars, raceVars>>

-----------------------------------------------------------------------------
(* Part 4: pkg/anomaly, Detector *)

TrafficSpike == "traffic_spike"
ErrorRateHigh == "error_rate_high"
BehavioralAnomaly == "behavioral_anomaly"
InsufficientData == "insufficient data points for baseline learning"

\* Detector.calculateMean
DetectorMean(points) ==
    IF Len(points) = 0 THEN FInt(0)
    ELSE Div(SumValues(points), FInt(Len(points)))

\* Detector.euclideanDistance
DetectorDistance(a, b) == Sqrt(SumSquares(a, b, Len(a)))

\* recent := points[len(points)-3:], for len(points) >= 3
Recent(points) == SubSeq(points, Len(points) - 2, Len(points))
\* points[:len(points)-3]
Prior(points) == SubSeq(points, 1, Len(points) - 3)
\* latest := points[len(points)-1]
Latest(points) == points[Len(points)]

isTrafficSpikeAtLeast(points, config) ==
    /\ Len(points) >= 3
    /\ ~Less(DetectorMean(Recent(points)),
             Mul(DetectorMean(Prior(points)), config.TrafficSpikeThreshold))
isTrafficSpike(points, config) ==
    /\ Len(points) >= 3
    /\ Greater(DetectorMean(Recent(points)),
               Mul(DetectorMean(Prior(points)), config.TrafficSpikeThreshold))

isHighErrorRateAtLeast(points, config) ==
    /\ Len(points) # 0
    /\ ~Less(FInt(Latest(points).Value), config.ErrorRateThreshold)
isHighErrorRate(points, config) ==
    /\ Len(points) # 0
    /\ Greater(FInt(Latest(points).Value), config.ErrorRateThreshold)

calculateTrafficSpikeSeverity(points) ==
    IF Len(points) < 3 THEN FInt(1)
    ELSE LET baseline == DetectorMean(Prior(points))
             currentRate == DetectorMean(Recent(points))
         IN IF baseline = FInt(0) THEN FInt(1) ELSE Div(currentRate, baseline)

Anomaly(type, serviceName, severity) ==
    [Type |-> type, ServiceName |-> serviceName, Severity |-> severity]

detectStaticAnomalies(serviceName, points, config) ==
    IF Len(points) < 2 THEN <<>>
    ELSE (IF isTrafficSpike(points, config)
          THEN <<Anomaly(TrafficSpike, serviceName, calculateTrafficSpikeSeverity(points))>>
          ELSE <<>>)
         \o (IF isHighErrorRate(points, config)
             THEN <<Anomaly(ErrorRateHigh, serviceName,
                            Div(FInt(Latest(points).Value), config.ErrorRateThreshold))>>
             ELSE <<>>)

\* variance += distance * distance, over cluster.Points[..m]
RECURSIVE SumSquaredDistances(_, _)
SumSquaredDistances(cluster, m) ==
    IF m = 0 THEN FInt(0)
    ELSE The({ Add(SumSquaredDistances(cluster, m - 1), Mul(distance, distance)) :
                 distance \in {DetectorDistance(cluster.Points[m].Features, cluster.Centroid)} })

\* the loop over clusters[..m]: totalVariance and totalPoints
RECURSIVE ThresholdTotalsUnweighted(_, _)
ThresholdTotalsUnweighted(clusters, m) ==
    IF m = 0 THEN [totalVariance |-> FInt(0), totalPoints |-> 0]
    ELSE The({ IF size = 0 THEN rest
               ELSE [totalVariance |->
                         Add(rest.totalVariance,
                             Div(SumSquaredDistances(clusters[m], size), FInt(size))),
                     totalPoints |-> rest.totalPoints + size] :
                 rest \in {ThresholdTotalsUnweighted(clusters, m - 1)},
                 size \in {Len(clusters[m].Points)} })
RECURSIVE ThresholdTotals(_, _)
ThresholdTotals(clusters, m) ==
    IF m = 0 THEN [totalVariance |-> FInt(0), totalPoints |-> 0]
    ELSE The({ IF size = 0 THEN rest
               ELSE The({ [totalVariance |-> Add(rest.totalVariance, Mul(variance, FInt(size))),
                           totalPoints |-> rest.totalPoints + size] :
                            variance \in {Div(SumSquaredDistances(clusters[m], size), FInt(size))} }) :
                 rest \in {ThresholdTotals(clusters, m - 1)},
                 size \in {Len(clusters[m].Points)} })

calculateDynamicThreshold(clusters, config) ==
    IF Len(clusters) = 0 THEN FInt(1)
    ELSE The({ IF totals.totalPoints = 0 THEN FInt(1)
               ELSE Mul(Sqrt(Div(totals.totalVariance, FInt(totals.totalPoints))),
                        config.SensitivityLevel) :
                 totals \in {ThresholdTotals(clusters, Len(clusters))} })

\* minDistance after the loop over clusters[..m]
RECURSIVE MinDistance(_, _, _)
MinDistance(features, clusters, m) ==
    IF m = 0 THEN PosInf
    ELSE The({ IF Less(distance, minDistance) THEN distance ELSE minDistance :
                 minDistance \in {MinDistance(features, clusters, m - 1)},
                 distance \in {DetectorDistance(features, clusters[m].Centroid)} })

detectMLAnomalies(serviceName, points, clusters, config) ==
    IF Len(points) < config.WindowSize THEN <<>>
    ELSE The({ IF Len(features) = 0 THEN <<>>
               ELSE The({ IF Greater(minDistance, threshold)
                          THEN <<Anomaly(BehavioralAnomaly, serviceName,
                                         Div(minDistance, threshold))>>
                          ELSE <<>> :
                            minDistance \in {MinDistance(features[Len(features)].Features,
                                                         clusters, Len(clusters))},
                            threshold \in {calculateDynamicThreshold(clusters, config)} }) :
                 features \in {ExtractFeatures(points, config.WindowSize)} })

\* the services the detector is asked about
Entities == {"svc-a", "svc-b"}

\* the values recorded for a service, oldest first.  svc-a: a jump from 4 to
\* 10 after a value below 0 (a value is any float64), or a steady 2 that
\* ends with 0; svc-b: a rise from 0 to 2
DetSeries(serviceName) ==
    IF serviceName = "svc-a"
    THEN { <<2, -6, 4, 10, 10, 10>>, <<2, 2, 2, 2, 2, 0>> }
    ELSE { <<0, 0, 1, 2, 2, 2>> }
\* recentPoints := storage.GetLatestN(serviceName, "request_count", n)
DetInputs(serviceName) ==
    { LatestNOf(PointsWith(values), n) : values \in DetSeries(serviceName), n \in 0..MaxLatest }

DetWindows == {1, 2}
DetK == {1, 2}
DetMaxIter == 2
DefaultTrafficSpikeThreshold == FInt(2)
DefaultErrorRateThreshold == Fin(1, 20)
DefaultSensitivityLevel == FInt(2)
DetConfigs ==
    { [WindowSize |-> w, K |-> K, MaxIter |-> DetMaxIter, Tolerance |-> DefaultTolerance,
       TrafficSpikeThreshold |-> DefaultTrafficSpikeThreshold,
       ErrorRateThreshold |-> e,
       SensitivityLevel |-> DefaultSensitivityLevel] :
        w \in DetWindows, K \in DetK, e \in {DefaultErrorRateThreshold, FInt(0)} }

NoBaseline == [exists |-> FALSE, clusters |-> <<>>]
\* had is history: the map entry of serviceName when the call began
NoCall ==
    [op |-> None, serviceName |-> "", points |-> <<>>, anomalies |-> <<>>, err |-> "",
     had |-> NoBaseline]
NotLearned == [done |-> FALSE, points |-> <<>>]

\* no Detector in use
DetIdle ==
    /\ dconfig = NoConfig
    /\ baselines = [e \in Entities |-> NoBaseline]
    /\ dpc = "idle"
    /\ dcall = NoCall
    /\ learned = [e \in Entities |-> NotLearned]

\* NewDetector(config, NewClusteringEngine(mlConfig))
DetInit ==
    /\ dconfig \in DetConfigs
    /\ baselines = [e \in Entities |-> NoBaseline]
    /\ dpc = "idle"
    /\ dcall = NoCall
    /\ learned = [e \in Entities |-> NotLearned]

\* len(points) < d.config.WindowSize
LearnInsufficientNever(points, config) == FALSE
LearnInsufficient(points, config) == Len(points) < config.WindowSize

\* d.baselines[serviceName] = clusters, where the map held prior for serviceName
MergedBaseline(prior, clusters) == [exists |-> TRUE, clusters |-> prior.clusters \o clusters]
NewBaseline(prior, clusters) == [exists |-> TRUE, clusters |-> clusters]

\* err := d.LearnBaseline(serviceName, points)
LearnBaseline(serviceName, points) ==
    /\ dpc = "idle"
    /\ dpc' = "returned"
    /\ IF LearnInsufficient(points, dconfig)
       THEN /\ dcall' = [op |-> "LearnBaseline", serviceName |-> serviceName,
                         points |-> points, anomalies |-> <<>>, err |-> InsufficientData,
                         had |-> baselines[serviceName]]
            /\ UNCHANGED <<baselines, learned>>
       ELSE /\ \E features \in {ExtractFeatures(points, dconfig.WindowSize)} :
                \E clusters \in {KMeans(features, dconfig)} :
                    baselines' = [baselines EXCEPT ![serviceName] = NewBaseline(@, clusters)]
            /\ learned' = [learned EXCEPT ![serviceName] = [done |-> TRUE, points |-> points]]
            /\ dcall' = [op |-> "LearnBaseline", serviceName |-> serviceName,
                         points |-> points, anomalies |-> <<>>, err |-> "",
                         had |-> baselines[serviceName]]
    /\ UNCHANGED <<dconfig, storeVars, featVars, kmVars, hcVars, raceVars>>

\* the anomalies DetectAnomalies returns, for the map entry baseline of serviceName
AnomaliesMLFirst(serviceName, recentPoints, baseline, config) ==
    (IF baseline.exists
     THEN detectMLAnomalies(serviceName, recentPoints, baseline.clusters, config)
     ELSE <<>>)
    \o detectStaticAnomalies(serviceName, recentPoints, config)
AnomaliesOf(serviceName, recentPoints, baseline, config) ==
    detectStaticAnomalies(serviceName, recentPoints, config)
    \o (IF baseline.exists
        THEN detectMLAnomalies(serviceName, recentPoints, baseline.clusters, config)
        ELSE <<>>)

\* anomalies, err := d.DetectAnomalies(serviceName, recentPoints)
DetectAnomalies(serviceName, recentPoints) ==
    /\ dpc = "idle"
    /\ dpc' = "returned"
    /\ dcall' = [op |-> "DetectAnomalies", serviceName |-> serviceName,
                 points |-> recentPoints,
                 anomalies |-> AnomaliesOf(serviceName, recentPoints,
                                           baselines[serviceName], dconfig),
                 err |-> "",
                 had |-> baselines[serviceName]]
    /\ UNCHANGED <<dconfig, baselines, learned, storeVars, featVars, kmVars, hcVars, raceVars>>

\* the caller has taken the results of the call
DetectorReturn ==
    /\ dpc = "returned"
    /\ dpc' = "idle"
    /\ dcall' = NoCall
    /\ UNCHANGED <<dconfig, baselines, learned, storeVars, featVars, kmVars, hcVars, raceVars>>

-----------------------------------------------------------------------------
(* Part 5: one Detector called by several goroutines *)

\* the goroutines that call the Detector
Goroutines == {"g1", "g2"}

\* the number of latest points a goroutine calls with
RaceLatest == {1, 4}
\* recentPoints := storage.GetLatestN(serviceName, "request_count", n)
RaceInputs(serviceName) ==
    { LatestNOf(PointsWith(values), n) : values \in DetSeries(serviceName), n \in RaceLatest }
\* the configurations with the default thresholds and one cluster
RaceConfigs ==
    { c \in DetConfigs : c.ErrorRateThreshold = DefaultErrorRateThreshold /\ c.K = 1 }

\* entry is the value of d.baselines[serviceName] when the map read began
NoGoCall ==
    [op |-> None, serviceName |-> "", points |-> <<>>, clusters |-> <<>>,
     entry |-> NoBaseline, anomalies |-> <<>>, err |-> ""]

\* no goroutine uses the Detector
RaceIdle ==
    /\ gpc = [g \in Goroutines |-> "idle"]
    /\ gcall = [g \in Goroutines |-> NoGoCall]
    /\ racing = {}
    /\ crashed = FALSE

\* the goroutines other than g that are inside a map access a write of g's
\* conflicts with, and those inside one a read of g's conflicts with
InsideAccess(g) == { o \in Goroutines \ {g} : gpc[o] \in {"assigning", "accessing"} }
InsideAssign(g) == { o \in Goroutines \ {g} : gpc[o] = "assigning" }

\* go d.LearnBaseline(serviceName, points), up to the map assignment
GoLearnBaseline(g, serviceName, points) ==
    /\ ~crashed
    /\ gpc[g] = "idle"
    /\ IF LearnInsufficient(points, dconfig)
       THEN /\ gpc' = [gpc EXCEPT ![g] = "returned"]
            /\ gcall' = [gcall EXCEPT ![g] =
                   [NoGoCall EXCEPT !.op = "LearnBaseline", !.serviceName = serviceName,
                                    !.points = points, !.err = InsufficientData]]
       ELSE /\ gpc' = [gpc EXCEPT ![g] = "assign"]
            /\ \E features \in {ExtractFeatures(points, dconfig.WindowSize)} :
                \E clusters \in {KMeans(features, dconfig)} :
                    gcall' = [gcall EXCEPT ![g] =
                       [NoGoCall EXCEPT !.op = "LearnBaseline", !.serviceName = serviceName,
                                        !.points = points, !.clusters = clusters]]
    /\ UNCHANGED <<racing, crashed, detVars, storeVars, featVars, kmVars, hcVars>>

\* the same step under a mutex of the Detector: it waits while another
\* goroutine is inside the map
MapAssignBeginLocked(g) ==
    /\ ~crashed
    /\ gpc[g] = "assign"
    /\ InsideAccess(g) = {}
    /\ gpc' = [gpc EXCEPT ![g] = "assigning"]
    /\ UNCHANGED <<gcall, racing, crashed, detVars, storeVars, featVars, kmVars, hcVars>>
\* d.baselines[serviceName] = clusters begins: no lock is taken, and the
\* write overlaps every access another goroutine is inside
MapAssignBegin(g) ==
    /\ ~crashed
    /\ gpc[g] = "assign"
    /\ gpc' = [gpc EXCEPT ![g] = "assigning"]
    /\ racing' = IF InsideAccess(g) = {} THEN racing ELSE racing \cup {g} \cup InsideAccess(g)
    /\ UNCHANGED <<gcall, crashed, detVars, storeVars, featVars, kmVars, hcVars>>

\* d.baselines[serviceName] = clusters ends and LearnBaseline returns nil.  A
\* write that overlapped another access is a data race: the runtime stops the
\* process (fatal error: concurrent map writes), or the entry is written, or
\* the write is lost
MapAssignEnd(g) ==
    /\ ~crashed
    /\ gpc[g] = "assigning"
    /\ racing' = racing \ {g}
    /\ \/ /\ baselines' = [baselines EXCEPT ![gcall[g].serviceName] =
                                NewBaseline(@, gcall[g].clusters)]
          /\ gpc' = [gpc EXCEPT ![g] = "returned"]
          /\ UNCHANGED crashed
       \/ /\ g \in racing
          /\ gpc' = [gpc EXCEPT ![g] = "returned"]
          /\ UNCHANGED <<baselines, crashed>>
       \/ /\ g \in racing
          /\ crashed' = TRUE
          /\ UNCHANGED <<baselines, gpc>>
    /\ UNCHANGED <<gcall, dconfig, dpc, dcall, learned, storeVars, featVars, kmVars, hcVars>>

\* go d.DetectAnomalies(serviceName, recentPoints), up to the map read
GoDetectAnomalies(g, serviceName, recentPoints) ==
    /\ ~crashed
    /\ gpc[g] = "idle"
    /\ gpc' = [gpc EXCEPT ![g] = "access"]
    /\ gcall' = [gcall EXCEPT ![g] =
           [NoGoCall EXCEPT !.op = "DetectAnomalies", !.serviceName = serviceName,
                            !.points = recentPoints,
                            !.anomalies = detectStaticAnomalies(serviceName, recentPoints,
                                                                dconfig)]]
    /\ UNCHANGED <<racing, crashed, detVars, storeVars, featVars, kmVars, hcVars>>

\* clusters, exists := d.baselines[serviceName] begins: no lock is taken, and
\* the read overlaps every write another goroutine is inside
MapAccessBegin(g) ==
    /\ ~crashed
    /\ gpc[g] = "access"
    /\ gpc' = [gpc EXCEPT ![g] = "accessing"]
    /\ gcall' = [gcall EXCEPT ![g].entry = baselines[gcall[g].serviceName]]
    /\ racing' = IF InsideAssign(g) = {} THEN racing ELSE racing \cup {g} \cup InsideAssign(g)
    /\ UNCHANGED <<crashed, detVars, storeVars, featVars, kmVars, hcVars>>

\* the entries a map read of g's may yield: the entry of the map, or, for a
\* read that overlapped a write, also the entry as it was or no entry
EntriesRead(g) ==
    IF g \in racing
    THEN {baselines[gcall[g].serviceName], gcall[g].entry, NoBaseline}
    ELSE {baselines[gcall[g].serviceName]}

\* clusters, exists := d.baselines[serviceName] ends and DetectAnomalies
\* returns.  A read that overlapped a write is a data race: the runtime stops
\* the process (fatal error: concurrent map read and map write), or the read
\* yields one of EntriesRead
MapAccessEnd(g) ==
    /\ ~crashed
    /\ gpc[g] = "accessing"
    /\ racing' = racing \ {g}
    /\ \/ /\ \E entry \in EntriesRead(g) :
                gcall' = [gcall EXCEPT ![g].entry = entry,
                                       ![g].anomalies =
                                           AnomaliesOf(gcall[g].serviceName, gcall[g].points,
                                                       entry, dconfig)]
          /\ gpc' = [gpc EXCEPT ![g] = "returned"]
          /\ UNCHANGED crashed
       \/ /\ g \in racing
          /\ crashed' = TRUE
          /\ UNCHANGED <<gcall, gpc>>
    /\ UNCHANGED <<detVars, storeVars, featVars, kmVars, hcVars>>

\* the caller has taken the results of g's call
GoReturn(g) ==
    /\ ~crashed
    /\ gpc[g] = "returned"
    /\ gpc' = [gpc EXCEPT ![g] = "idle"]
    /\ gcall' = [gcall EXCEPT ![g] = NoGoCall]
    /\ UNCHANGED <<racing, crashed, detVars, storeVars, featVars, kmVars, hcVars>>

-----------------------------------------------------------------------------
(* The specifications *)

\* one call of ExtractFeatures
InitFeat == StoreInit /\ FeatInit /\ KMIdle /\ DetIdle /\ ConvIdle /\ RaceIdle

NextFeat == ExtractCall

SpecFeat == InitFeat /\ [][NextFeat]_vars

\* one call of KMeans
InitKM == StoreInit /\ FeatIdle /\ KMInit /\ DetIdle /\ ConvIdle /\ RaceIdle

\* one call of hasConverged
InitConv == StoreInit /\ FeatIdle /\ KMIdle /\ DetIdle /\ ConvInit /\ RaceIdle

NextConv == HasConvergedCall

SpecConv == InitConv /\ [][NextConv]_vars

NextKM == KMeansCall

SpecKM == InitKM /\ [][NextKM]_vars

\* one Detector, called by one goroutine
InitDet == StoreInit /\ FeatIdle /\ KMIdle /\ DetInit /\ ConvIdle /\ RaceIdle

NextDet ==
    \/ \E e \in Entities : \E points \in DetInputs(e) : LearnBaseline(e, points)
    \/ \E e \in Entities : \E points \in DetInputs(e) : DetectAnomalies(e, points)
    \/ DetectorReturn

SpecDet == InitDet /\ [][NextDet]_vars

\* one Detector, called by the goroutines at once
InitRace ==
    /\ StoreInit /\ FeatIdle /\ KMIdle /\ ConvIdle /\ RaceIdle
    /\ dconfig \in RaceConfigs
    /\ baselines = [e \in Entities |-> NoBaseline]
    /\ dpc = "idle"
    /\ dcall = NoCall
    /\ learned = [e \in Entities |-> NotLearned]

NextRace ==
    \/ \E g \in Goroutines, e \in Entities : \E points \in RaceInputs(e) :
          GoLearnBaseline(g, e, points)
    \/ \E g \in Goroutines, e \in Entities : \E points \in RaceInputs(e) :
          GoDetectAnomalies(g, e, points)
    \/ \E g \in Goroutines : MapAssignBegin(g)
    \/ \E g \in Goroutines : MapAssignEnd(g)
    \/ \E g \in Goroutines : MapAccessBegin(g)
    \/ \E g \in Goroutines : MapAccessEnd(g)
    \/ \E g \in Goroutines : GoReturn(g)

SpecRace == InitRace /\ [][NextRace]_vars

\* goroutines using one Storage
Init == StoreInit /\ FeatIdle /\ KMIdle /\ DetIdle /\ ConvIdle /\ RaceIdle

Next ==
    \/ \E t \in Writers :
        \/ \E target \in Targets : StoreCall(t, target, PayloadOf(t))
        \/ StoreLock(t)
        \/ \E now \in NowReadings : StoreCreate(t, now)
        \/ StoreLockSeries(t)
        \/ StoreAppendBegin(t)
        \/ StoreAppendEnd(t)
        \/ StoreUnlockSeries(t)
        \/ StoreReturn(t)
    \/ \E t \in Readers :
        \/ \E op \in ReadOps, target \in Targets : ReadCall(t, op, target)
        \/ GetSeriesRLock(t)
        \/ GetSeriesReturn(t)
        \/ ReadRLockSeries(t)
        \/ \E start \in StartArgs, end \in EndArgs : GetTimeRangeRead(t, start, end)
        \/ \E n \in NArgs : GetLatestNRead(t, n)
        \/ ReadReturn(t)

Spec == Init /\ [][Next]_vars

\* the steps of goroutine t that wait for a mutex
AcquireOf(t) ==
    \/ StoreLock(t)
    \/ StoreLockSeries(t)
    \/ GetSeriesRLock(t)
    \/ ReadRLockSeries(t)
\* the steps of goroutine t inside a call that wait for nothing
StepOf(t) ==
    \/ \E now \in NowReadings : StoreCreate(t, now)
    \/ StoreAppendBegin(t)
    \/ StoreAppendEnd(t)
    \/ StoreUnlockSeries(t)
    \/ StoreReturn(t)
    \/ GetSeriesReturn(t)
    \/ \E start \in StartArgs, end \in EndArgs : GetTimeRangeRead(t, start, end)
    \/ \E n \in NArgs : GetLatestNRead(t, n)
    \/ ReadReturn(t)

\* The Go scheduler lets every runnable goroutine run, and a goroutine blocked
\* in Lock or RLock gets the mutex once it is free often enough: a pending
\* Lock of a sync.RWMutex keeps new readers out, and sync.Mutex hands the lock
\* to a waiter that has waited long (starvation mode).
Fairness ==
    \A t \in Threads : WF_vars(StepOf(t)) /\ SF_vars(AcquireOf(t))

\* the same goroutines, whose reads ask for the whole series: which points a
\* read asks for changes no lock it takes
NextLive ==
    \/ \E t \in Writers :
        \/ \E target \in Targets : StoreCall(t, target, PayloadOf(t))
        \/ StoreLock(t)
        \/ \E now \in NowReadings : StoreCreate(t, now)
        \/ StoreLockSeries(t)
        \/ StoreAppendBegin(t)
        \/ StoreAppendEnd(t)
        \/ StoreUnlockSeries(t)
        \/ StoreReturn(t)
    \/ \E t \in Readers :
        \/ \E op \in ReadOps, target \in Targets : ReadCall(t, op, target)
        \/ GetSeriesRLock(t)
        \/ GetSeriesReturn(t)
        \/ ReadRLockSeries(t)
        \/ GetTimeRangeRead(t, -1, MaxClock + 1)
        \/ GetLatestNRead(t, MaxN)
        \/ ReadReturn(t)

\* goroutines using one Storage, fairly scheduled
SpecLive == Init /\ [][NextLive]_vars /\ Fairness

-----------------------------------------------------------------------------
(* Properties of the time-series store, checked under Spec *)

\* the goroutine has read series.Points and still holds the series read lock
HasRead(r, op) == pc[r] = "runlockSeries" /\ args[r].op = op

\* GetSeries has looked the key up and still holds the store read lock
HasLookedUp(r) == pc[r] = "runlock"

\* C1: after any sequence of appends to a series and for every n >= 0,
\* GetLatestN returns exactly the last min(n, count) samples of the series, in
\* insertion order (none at all for a key without a series).
C1_LatestN ==
    \A r \in Readers :
        /\ HasRead(r, "GetLatestN") =>
             LET points == series[local[r].key].Points
                 k == Min(args[r].n, Len(points))
             IN /\ ~local[r].torn
                /\ Len(local[r].result) = k
                /\ \A i \in 1..k : local[r].result[i] = points[Len(points) - k + i]
        /\ (HasLookedUp(r) /\ args[r].op = "GetLatestN" /\ local[r].key \notin DOMAIN series)
             => ~local[r].exists /\ local[r].result = <<>>

\* a GetLatestN(1) on a series of two samples has returned the second one
C1_Witness ==
    \E r \in Readers :
        /\ HasRead(r, "GetLatestN") /\ args[r].n = 1
        /\ Len(series[local[r].key].Points) = 2
        /\ series[local[r].key].Points[1] # series[local[r].key].Points[2]
        /\ local[r].result = <<series[local[r].key].Points[2]>>

\* C2: GetTimeRange returns, in series order, exactly the samples with
\* start < Timestamp < end; a sample at start or at end is never returned.
C2_TimeRange ==
    \A r \in Readers :
        HasRead(r, "GetTimeRange") =>
            LET points == series[local[r].key].Points
                Inside(p) == args[r].start < p.Timestamp /\ p.Timestamp < args[r].end
            IN /\ ~local[r].torn
               /\ local[r].result = SelectSeq(points, Inside)
               /\ \A i \in 1..Len(local[r].result) :
                    /\ local[r].result[i].Timestamp # args[r].start
                    /\ local[r].result[i].Timestamp # args[r].end

\* a GetTimeRange has left out the sample at start and has returned the one
\* between start and end
C2_Witness ==
    \E r \in Readers :
        /\ HasRead(r, "GetTimeRange")
        /\ Len(series[local[r].key].Points) = 2
        /\ series[local[r].key].Points[1].Timestamp = args[r].start
        /\ series[local[r].key].Points[2].Timestamp < args[r].end
        /\ local[r].result = <<series[local[r].key].Points[2]>>

\* the samples and names the store holds, without the state of its locks
Content(s) ==
    [k \in DOMAIN s |-> <<s[k].ServiceName, s[k].Metric, s[k].Points>>]

\* C3: a read of a key without a series is no error: GetSeries reports
\* exists = false, GetTimeRange and GetLatestN return the empty result at once,
\* and no step of a read creates a series or changes the content of the store.
C3_UnknownKey ==
    [][ /\ \A r \in Readers :
            (HasLookedUp(r)' /\ local'[r].key \notin DOMAIN series')
                => ~local'[r].exists /\ local'[r].result = <<>>
        /\ \A r \in Readers :
            (HasLookedUp(r) /\ ~local[r].exists /\ pc'[r] # pc[r])
                => pc'[r] = "idle"
        /\ (\A w \in Writers : pc'[w] = pc[w]) => Content(series') = Content(series)
      ]_vars

\* a GetTimeRange has looked up a key that has no series while another key has one
C3_Witness ==
    \E r \in Readers :
        /\ HasLookedUp(r) /\ args[r].op = "GetTimeRange"
        /\ local[r].key \notin DOMAIN series /\ ~local[r].exists
        /\ DOMAIN series # {}

\* the goroutine holds the store lock
InStore(w) == pc[w] \in {"create", "lockSeries", "append", "assign", "unlockSeries", "unlock"}

\* the step is the one in which goroutine w assigns the appended slice
Appends(w) == pc[w] = "assign" /\ pc'[w] = "unlockSeries"

\* the step is the one in which goroutine w passes the nil check's branch
Creates(w) == pc[w] = "create" /\ pc'[w] = "lockSeries"

IsPrefix(a, b) == Len(a) <= Len(b) /\ SubSeq(b, 1, Len(a)) = a

\* C4: Store creates the series of its key, named by its serviceName and
\* metric, if the key has none, and appends exactly one sample, with the value
\* and labels it was given, at the end of that series: the series grows by one
\* and nothing else in the store changes.
C4_Append ==
    [][ /\ \A w \in Writers :
            /\ (Creates(w) /\ local[w].key \notin DOMAIN series) =>
                 /\ DOMAIN series' = DOMAIN series \cup {local[w].key}
                 /\ series'[local[w].key].ServiceName = args[w].serviceName
                 /\ series'[local[w].key].Metric = args[w].metric
                 /\ series'[local[w].key].Points = <<>>
                 /\ \A k \in DOMAIN series : series'[k] = series[k]
            /\ (Creates(w) /\ local[w].key \in DOMAIN series) =>
                 Content(series') = Content(series)
            /\ Appends(w) =>
                 LET k == Key(args[w].serviceName, args[w].metric)
                     n == Len(series[k].Points)
                 IN /\ Len(series'[k].Points) = n + 1
                    /\ SubSeq(series'[k].Points, 1, n) = series[k].Points
                    /\ series'[k].Points[n + 1].Value = args[w].value
                    /\ series'[k].Points[n + 1].Labels = args[w].labels
                    /\ DOMAIN series' = DOMAIN series
                    /\ \A k2 \in DOMAIN series \ {k} : series'[k2] = series[k2]
        /\ (\A w \in Writers : ~Appends(w) /\ ~Creates(w)) =>
              Content(series') = Content(series)
      ]_vars

\* a Store has appended its sample to a series that held one sample already
C4_Witness ==
    \E w \in Writers :
        /\ pc[w] = "unlockSeries"
        /\ ~local[w].isNil
        /\ Len(series[local[w].key].Points) = 2
        /\ series[local[w].key].Points[2].Value = args[w].value
        /\ series[local[w].key].Points[2].Labels = args[w].labels

\* the Store calls on key k that have not appended their sample yet
Pending(k) ==
    { w \in Writers : pc[w] \in {"lock", "create", "lockSeries", "append", "assign"}
                        /\ local[w].key = k }

\* C5: no append is lost, in any interleaving of concurrent Store calls: every
\* series holds as many samples as Store calls were issued to its key, less
\* the calls still on their way to the append; so when all writers have
\* returned, each series holds exactly as many samples as were issued to it.
C5_NoLostAppend ==
    \A k \in Keys : Len(PointsOf(series, k)) + Cardinality(Pending(k)) = issued[k]

\* both writers have returned from a Store to the same key, and it holds both samples
C5_Witness ==
    /\ \A w \in Writers : pc[w] = "idle"
    /\ \E k \in DOMAIN series :
        /\ issued[k] = 2
        /\ Len(series[k].Points) = 2
        /\ series[k].Points[1].Value # series[k].Points[2].Value

\* goroutine w has called s.mutex.Lock() and waits for goroutine v to unlock it
WaitsFor(w, v) == pc[w] = "lock" /\ smutex.writer = v

\* C6 as stated: two concurrent Store calls to different series never wait for a
\* lock the other holds, and two to the same series are serialized.
C6_NoContention ==
    \A w, v \in Writers :
        w # v =>
            /\ (pc[w] # "idle" /\ pc[v] # "idle" /\ local[w].key # local[v].key)
                 => ~WaitsFor(w, v)
            /\ (pc[w] # "idle" /\ pc[v] # "idle" /\ local[w].key = local[v].key)
                 => ~(InStore(w) /\ InStore(v))

\* C6, amended: any two concurrent Store calls are serialized, to the same
\* series or to different ones: a Store holds the store-wide lock from its nil
\* check to its return, and only its holder is past s.mutex.Lock().
C6_Serialized ==
    \A w, v \in Writers :
        /\ (w # v) => ~(InStore(w) /\ InStore(v))
        /\ InStore(w) => smutex.writer = w

\* a Store to one series waits for the store-wide lock while a Store to another
\* series holds it
C6_Witness ==
    \E w, v \in Writers :
        /\ InStore(v) /\ WaitsFor(w, v)
        /\ local[w].key # local[v].key

\* C7: a GetLatestN or GetTimeRange that runs beside appends to its series
\* returns what it computes from one state the series' point sequence had
\* between the call and the return, never from a half-assigned slice.
C7_Snapshot ==
    \A r \in Readers :
        /\ pc[r] = "runlockSeries" =>
             /\ ~local[r].torn
             /\ \E points \in seen[r] : local[r].result = ReadResult(args[r], points)
        /\ (HasLookedUp(r) /\ ~local[r].exists) => <<>> \in seen[r]

\* a read has returned the state of a series that an append changed during the call
C7_Witness ==
    \E r \in Readers :
        /\ pc[r] = "runlockSeries"
        /\ Cardinality(seen[r]) >= 2
        /\ local[r].result # <<>>
        /\ \E points \in seen[r] : local[r].result # ReadResult(args[r], points)

\* C8: the store is append-only: in every step each series stays in the store
\* and its earlier point sequence is a prefix of its later one.
C8_AppendOnly ==
    [][ \A k \in DOMAIN series :
            /\ k \in DOMAIN series'
            /\ IsPrefix(series[k].Points, series'[k].Points)
      ]_vars

\* a series that was created with its first sample holds a second one
C8_Witness ==
    \E k \in DOMAIN series :
        /\ Len(series[k].Points) = 2
        /\ series[k].Points[1] # series[k].Points[2]

\* C9 as stated: the samples of each series are strictly ordered by timestamp.
C9_StrictlyOrdered ==
    \A k \in DOMAIN series :
        \A i, j \in 1..Len(series[k].Points) :
            i < j => series[k].Points[i].Timestamp < series[k].Points[j].Timestamp

\* C9, amended: the samples of each series are ordered by timestamp, not
\* strictly: for i < j, Timestamp[i] <= Timestamp[j], each timestamp being a
\* clock value read during the Store call, also with concurrent writers.
C9_Ordered ==
    \A k \in DOMAIN series :
        /\ \A i, j \in 1..Len(series[k].Points) :
            i < j => series[k].Points[i].Timestamp <= series[k].Points[j].Timestamp
        /\ \A i \in 1..Len(series[k].Points) : series[k].Points[i].Timestamp <= clock

\* two writers' samples stand in one series with the same timestamp
C9_Witness ==
    \E k \in DOMAIN series :
        /\ Len(series[k].Points) = 2
        /\ series[k].Points[1].Timestamp = series[k].Points[2].Timestamp
        /\ series[k].Points[1].Value # series[k].Points[2].Value

-----------------------------------------------------------------------------
(* Properties of ExtractFeatures, checked under SpecFeat *)

\* the sum of the values of a sequence of points
RECURSIVE ValueSum(_)
ValueSum(points) ==
    IF points = <<>> THEN 0 ELSE Head(points).Value + ValueSum(Tail(points))

\* C10: for a window of windowSize >= 0 samples, ExtractFeatures(points,
\* windowSize) returns, and returns max(0, len(points) - windowSize) vectors of
\* 4 features each; the k-th, counted from 0, is computed over
\* points[k : k+windowSize], which leaves points[k+windowSize] out, and is
\* tagged with points[k+windowSize].  Values 10, 12, 11, 13, 14, 15 with
\* windowSize 3 give 3 vectors, the first with mean 11.
C10_ExtractFeatures ==
    (fpc # "ready" /\ fwindow >= 0) =>
        /\ fpc = "done"
        /\ Len(fout) = Max(0, Len(fpoints) - fwindow)
        /\ \A k \in 0..(Len(fout) - 1) :
            LET window == [i \in 1..fwindow |-> fpoints[k + i]]
                feature == fout[k + 1]
            IN /\ Len(feature.Features) = 4
               /\ feature.Features = <<calculateMean(window), calculateStdDev(window),
                                       calculateTrend(window), calculateVolatility(window)>>
               /\ feature.Features[1].k = "fin"
               /\ feature.Features[1].n * fwindow = ValueSum(window) * feature.Features[1].d
               /\ fpoints[feature.Original] = fpoints[k + fwindow + 1]
        /\ (fpoints = PointsWith(TestValues) /\ fwindow = TestWindow) =>
               /\ Len(fout) = 3
               /\ fout[1].Features[1] = FInt(11)

\* the call of the repository's test has returned its 3 vectors
C10_Witness ==
    /\ fpc = "done"
    /\ fpoints = PointsWith(TestValues) /\ fwindow = TestWindow
    /\ Len(fout) = 3
    /\ fout[1].Features[1] = FInt(11)
    /\ fout[1].Original = 4

-----------------------------------------------------------------------------
(* Properties of KMeans, checked under SpecKM *)

\* C11: KMeans(points) with len(points) < K returns nil, an empty result, and
\* does not panic, for every input and every K.
C11_InsufficientPoints ==
    (kpc # "ready" /\ Len(kpoints) < kconfig.K) =>
        /\ kpc = "done"
        /\ kout.nil
        /\ Len(kout.clusters) = 0

\* a call with one point and K = 2 has returned nil
C11_Witness ==
    /\ kpc = "done"
    /\ Len(kpoints) = 1 /\ kconfig.K = 2
    /\ kout.nil

\* the places (cluster, position) of the result that hold the point p
PlacesOf(p, clusters) ==
    { <<c, j>> \in (1..Len(clusters)) \X (1..Len(kpoints)) :
        j <= Len(clusters[c].Points) /\ clusters[c].Points[j] = p }

RECURSIVE SizeSum(_)
SizeSum(clusters) ==
    IF clusters = <<>> THEN 0 ELSE Len(Head(clusters).Points) + SizeSum(Tail(clusters))

\* the result has K clusters that hold every input point exactly once, and
\* centroids of the dimension of the input's feature vectors
IsPartition(points, K, clusters) ==
    /\ Len(clusters) = K
    /\ \A i \in 1..Len(points) : Cardinality(PlacesOf(points[i], clusters)) = 1
    /\ SizeSum(clusters) = Len(points)
    /\ \A c \in 1..Len(clusters), i \in 1..Len(points) :
        Len(clusters[c].Centroid) = Len(points[i].Features)

\* C12, as claimed: every KMeans call with len(points) >= K, for a number
\* K >= 1 of clusters, returns K clusters whose points partition the input,
\* with centroids of the input's dimension.
C12_Partition ==
    (kpc = "done" /\ Len(kpoints) >= kconfig.K /\ kconfig.K >= 1) =>
        IsPartition(kpoints, kconfig.K, kout.clusters)

\* C12, amended: with MaxIter >= 1, every KMeans call with len(points) >= K,
\* for a number K >= 1 of clusters, returns, and returns K clusters whose points
\* partition the input, with centroids of the input's dimension.
C12_PartitionIterated ==
    (kpc # "ready" /\ Len(kpoints) >= kconfig.K /\ kconfig.K >= 1 /\ kconfig.MaxIter >= 1) =>
        /\ kpc = "done"
        /\ ~kout.nil
        /\ IsPartition(kpoints, kconfig.K, kout.clusters)

\* the call of the repository's test has returned two clusters of three points
C12_Witness ==
    /\ kpc = "done"
    /\ kpoints = ClusterPointsWith(TestVectors) /\ kconfig = TestConfig
    /\ Len(kout.clusters) = 2
    /\ Len(kout.clusters[1].Points) = 3
    /\ Len(kout.clusters[2].Points) = 3

-----------------------------------------------------------------------------
(* Properties of the Detector, checked under SpecDet *)

\* a call of op returns in this step
Returns(op) == dpc = "idle" /\ dpc' = "returned" /\ dcall'.op = op
\* a call of op has just returned
Returned(op) == dpc = "returned" /\ dcall.op = op

\* C13: LearnBaseline(serviceName, points) with len(points) < WindowSize fails
\* with the insufficient-data error and leaves the map of baselines as it was.
C13_InsufficientData ==
    [][(Returns("LearnBaseline") /\ Len(dcall'.points) < dconfig.WindowSize) =>
          /\ dcall'.err = InsufficientData
          /\ baselines' = baselines]_vars

\* a call with too few points has failed for a service that has clusters, and
\* the service still has them
C13_Witness ==
    /\ Returned("LearnBaseline")
    /\ Len(dcall.points) < dconfig.WindowSize
    /\ dcall.err = InsufficientData
    /\ Len(dcall.had.clusters) > 0
    /\ baselines[dcall.serviceName] = dcall.had

\* C14: a LearnBaseline(serviceName, points) that succeeds sets the entry of
\* serviceName to KMeans(ExtractFeatures(points, WindowSize)), whatever the
\* entry was before, and leaves the other entries alone; repeating the call
\* with the same points leaves the map as it is.
C14_Replace ==
    [][(Returns("LearnBaseline") /\ dcall'.err = "") =>
          LET e == dcall'.serviceName
              fit == KMeans(ExtractFeatures(dcall'.points, dconfig.WindowSize), dconfig)
          IN /\ baselines'[e].exists
             /\ baselines'[e].clusters = fit
             /\ \A other \in Entities \ {e} : baselines'[other] = baselines[other]
             /\ (learned[e] = [done |-> TRUE, points |-> dcall'.points]) =>
                    baselines' = baselines]_vars

\* a successful call has replaced clusters by other clusters
C14_Witness ==
    /\ Returned("LearnBaseline")
    /\ dcall.err = ""
    /\ Len(dcall.had.clusters) > 0
    /\ Len(baselines[dcall.serviceName].clusters) > 0
    /\ baselines[dcall.serviceName] # dcall.had

\* the types of the anomalies a call returned
TypesOf(anomalies) == [i \in 1..Len(anomalies) |-> anomalies[i].Type]
HasType(anomalies, type) == \E i \in 1..Len(anomalies) : anomalies[i].Type = type
\* the anomalies of the given type
OfType(anomalies, type) == SelectSeq(anomalies, LAMBDA a : a.Type = type)

\* C15: when the last LearnBaseline of a service gave KMeans fewer than K
\* feature vectors, DetectAnomalies for that service returns no behavioral
\* anomaly, whatever points it is given.
C15_MLSkipped ==
    (/\ Returned("DetectAnomalies")
     /\ learned[dcall.serviceName].done
     /\ Len(ExtractFeatures(learned[dcall.serviceName].points, dconfig.WindowSize))
            < dconfig.K) =>
        ~HasType(dcall.anomalies, BehavioralAnomaly)

\* the mean of the values of points, 0 for no points, from their sum
MeanOf(points) == IF Len(points) = 0 THEN FInt(0) ELSE Fin(ValueSum(points), Len(points))
\* the last n of points, and the ones before them
LastOf(points, n) == [i \in 1..n |-> points[Len(points) - n + i]]
BeforeLast(points, n) == [i \in 1..(Len(points) - n) |-> points[i]]

\* the claim's example: a prior mean of 100 and a recent mean of 250
SpikeExample == PointsWith(<<100, 100, 250, 250, 250>>)

\* C16: for an input of at least 3 points, DetectAnomalies returns a
\* traffic_spike anomaly iff recentMean > priorMean * TrafficSpikeThreshold,
\* with recentMean the mean of the last 3 points and priorMean the mean of the
\* points before them; its severity is recentMean / priorMean, or 1 when
\* priorMean is 0.  priorMean 100, recentMean 250 and threshold 2 give
\* severity 2.5.
C16_TrafficSpike ==
    /\ (Returned("DetectAnomalies") /\ Len(dcall.points) >= 3) =>
        LET recentMean == MeanOf(LastOf(dcall.points, 3))
            priorMean == MeanOf(BeforeLast(dcall.points, 3))
            spikes == OfType(dcall.anomalies, TrafficSpike)
        IN /\ Len(spikes) <= 1
           /\ Len(spikes) = 1 <=>
                  FLess(FMul(priorMean, dconfig.TrafficSpikeThreshold), recentMean)
           /\ Len(spikes) = 1 =>
                  spikes[1].Severity =
                      IF priorMean.n = 0 THEN FInt(1) ELSE FDiv(recentMean, priorMean)
    /\ Returned("DetectAnomalies") =>
        detectStaticAnomalies("svc-a", SpikeExample, dconfig)[1]
            = Anomaly(TrafficSpike, "svc-a", Fin(5, 2))

\* a call has returned a traffic spike of severity 2.5, another none
C16_Witness ==
    /\ Returned("DetectAnomalies")
    /\ Len(dcall.points) >= 4
    /\ HasType(dcall.anomalies, TrafficSpike)
    /\ dcall.anomalies[1].Severity = Fin(5, 2)

\* the rule of the high error rate, for the call that has just returned
ErrorRateRule ==
    LET latestValue == FInt(dcall.points[Len(dcall.points)].Value)
        rates == OfType(dcall.anomalies, ErrorRateHigh)
    IN /\ Len(rates) <= 1
       /\ Len(rates) = 1 <=> FLess(dconfig.ErrorRateThreshold, latestValue)
       /\ Len(rates) = 1 =>
              rates[1].Severity = Div(latestValue, dconfig.ErrorRateThreshold)

\* C17, as claimed: for every non-empty input, DetectAnomalies returns an
\* error_rate_high anomaly iff the value of the latest point exceeds
\* ErrorRateThreshold, with severity latestValue / ErrorRateThreshold.
C17_ErrorRateNonEmpty ==
    (Returned("DetectAnomalies") /\ Len(dcall.points) >= 1) => ErrorRateRule

\* C17, amended: the same for every input of at least 2 points.
C17_ErrorRate ==
    (Returned("DetectAnomalies") /\ Len(dcall.points) >= 2) => ErrorRateRule

\* a call for a service without clusters has returned a high error rate of
\* severity 40, for 2 against the threshold 0.05
C17_Witness ==
    /\ Returned("DetectAnomalies")
    /\ ~dcall.had.exists
    /\ Len(dcall.points) >= 2
    /\ HasType(dcall.anomalies, ErrorRateHigh)
    /\ OfType(dcall.anomalies, ErrorRateHigh)[1].Severity = FInt(40)

\* the feature vector of the most recent window of points: the windowSize
\* points before the latest one
MostRecentVector(points, windowSize) ==
    LET window == [i \in 1..windowSize |-> points[Len(points) - windowSize - 1 + i]]
    IN <<calculateMean(window), calculateStdDev(window),
         calculateTrend(window), calculateVolatility(window)>>

\* the least of the distances from vector to the centroids of clusters; +Inf
\* when there is no centroid at a distance that is a number
NearestDistance(vector, clusters) ==
    LET distances == { DetectorDistance(vector, clusters[c].Centroid) : c \in 1..Len(clusters) }
        least == { d \in distances : ~IsNaN(d) /\ \A o \in distances : ~Less(o, d) }
    IN IF least = {} THEN PosInf ELSE CHOOSE d \in least : TRUE

\* the sum of the squared distances of points to centroid
RECURSIVE Spread(_, _)
Spread(points, centroid) ==
    IF points = <<>> THEN FInt(0)
    ELSE Add(SumSquares(Head(points).Features, centroid, Len(centroid)),
             Spread(Tail(points), centroid))
\* the same over the points of all clusters, each to the centroid of its own
RECURSIVE TotalSpread(_)
TotalSpread(clusters) ==
    IF clusters = <<>> THEN FInt(0)
    ELSE Add(Spread(Head(clusters).Points, Head(clusters).Centroid), TotalSpread(Tail(clusters)))

\* sqrt(pooled variance) * SensitivityLevel; 1 for no assigned point at all
PooledThreshold(clusters, sensitivityLevel) ==
    IF SizeSum(clusters) = 0 THEN FInt(1)
    ELSE Mul(Sqrt(Div(TotalSpread(clusters), FInt(SizeSum(clusters)))), sensitivityLevel)

\* C18: when the service has an entry in the map of baselines and the input
\* yields at least one feature vector, DetectAnomalies returns a
\* behavioral_anomaly iff nearestDistance > threshold, with nearestDistance the
\* least distance from the most recent feature vector to the centroids of the
\* entry and threshold = sqrt(pooled intra-cluster variance, weighted by
\* cluster size) * SensitivityLevel, 1 when no point is assigned at all; its
\* severity is nearestDistance / threshold.
C18_BehavioralAnomaly ==
    (/\ Returned("DetectAnomalies")
     /\ dcall.had.exists
     /\ Len(dcall.points) - dconfig.WindowSize >= 1) =>
        LET vector == MostRecentVector(dcall.points, dconfig.WindowSize)
            nearestDistance == NearestDistance(vector, dcall.had.clusters)
            threshold == PooledThreshold(dcall.had.clusters, dconfig.SensitivityLevel)
            found == OfType(dcall.anomalies, BehavioralAnomaly)
        IN /\ Len(found) <= 1
           /\ Len(found) = 1 <=> Greater(nearestDistance, threshold)
           /\ Len(found) = 1 => found[1].Severity = Div(nearestDistance, threshold)

\* a call has returned a behavioral anomaly of a finite severity, measured
\* against a cluster of several points
C18_Witness ==
    /\ Returned("DetectAnomalies")
    /\ Len(dcall.had.clusters) >= 1
    /\ Len(dcall.had.clusters[1].Points) >= 2
    /\ HasType(dcall.anomalies, BehavioralAnomaly)
    /\ IsFinite(OfType(dcall.anomalies, BehavioralAnomaly)[1].Severity)

\* the place of an anomaly type in the order of production
Rank(type) ==
    IF type = TrafficSpike THEN 1
    ELSE IF type = ErrorRateHigh THEN 2
    ELSE IF type = BehavioralAnomaly THEN 3
    ELSE 0

\* C19: DetectAnomalies returns its anomalies in the order of production: the
\* traffic spike, then the high error rate, then the behavioral anomaly, each
\* at most once.
C19_Order ==
    Returned("DetectAnomalies") =>
        /\ \A i \in 1..Len(dcall.anomalies) : Rank(dcall.anomalies[i].Type) >= 1
        /\ \A i, j \in 1..Len(dcall.anomalies) :
            i < j => Rank(dcall.anomalies[i].Type) < Rank(dcall.anomalies[j].Type)

\* a call has returned one anomaly of each kind
C19_Witness ==
    /\ Returned("DetectAnomalies")
    /\ TypesOf(dcall.anomalies) = <<TrafficSpike, ErrorRateHigh, BehavioralAnomaly>>

\* a fallback value
IsFallback(x) == x = FInt(0) \/ x = FInt(1)

\* C20: zero denominators yield 0 or 1 and no value that is not finite: the
\* trend and the volatility of every feature vector are finite, and the
\* severity of every anomaly is finite, and a fallback value when its
\* denominator (the prior mean, ErrorRateThreshold, the dynamic threshold) is 0.
C20_Fallbacks ==
    /\ \A e \in Entities :
        \A c \in 1..Len(baselines[e].clusters) :
            \A j \in 1..Len(baselines[e].clusters[c].Points) :
                /\ IsFinite(baselines[e].clusters[c].Points[j].Features[3])
                /\ IsFinite(baselines[e].clusters[c].Points[j].Features[4])
    /\ Returned("DetectAnomalies") =>
        \A i \in 1..Len(dcall.anomalies) :
            LET a == dcall.anomalies[i]
                denominator ==
                    IF a.Type = TrafficSpike THEN MeanOf(BeforeLast(dcall.points, 3))
                    ELSE IF a.Type = ErrorRateHigh THEN dconfig.ErrorRateThreshold
                    ELSE PooledThreshold(dcall.had.clusters, dconfig.SensitivityLevel)
            IN /\ IsFinite(a.Severity)
               /\ denominator = FInt(0) => IsFallback(a.Severity)

\* C21: every anomaly DetectAnomalies returns has a severity >= 0.
C21_SeverityNonNegative ==
    Returned("DetectAnomalies") =>
        \A i \in 1..Len(dcall.anomalies) : ~Less(dcall.anomalies[i].Severity, FInt(0))

\* the clusters of TestClusteringEngine_HasConverged: every centroid moved
\* by 0.05, and by 0.01, in each dimension
MovedBy(move) == ConvClusters([c \in 1..Len(ConvOld) |-> move])

-----------------------------------------------------------------------------
(* The iterations of KMeans *)

\* x <= y: false when either is NaN
LessEq(x, y) == ~IsNaN(x) /\ ~IsNaN(y) /\ ~Less(y, x)

\* the clusters after 0, 1, ..., n iterations of assignment and update, in
\* this order, from the seeds
RECURSIVE Iterates(_, _, _)
Iterates(points, K, n) ==
    IF n = 0 THEN <<initializeClusters(points, K)>>
    ELSE The({ Append(before,
                      updateCentroids(assignPointsToClusters(points, before[Len(before)]))) :
                 before \in {Iterates(points, K, n - 1)} })

\* in iteration i, every centroid moves by a distance <= Tolerance
AllWithin(iterates, i, Tolerance) ==
    \A c \in 1..Len(iterates[i]) :
        LessEq(euclideanDistance(iterates[i][c].Centroid, iterates[i + 1][c].Centroid),
               Tolerance)

\* the iteration the call stops after, by the rule of C23
LastIteration(iterates, config) ==
    IF \E i \in 1..config.MaxIter : AllWithin(iterates, i, config.Tolerance)
    THEN CHOOSE i \in 1..config.MaxIter :
            /\ AllWithin(iterates, i, config.Tolerance)
            /\ \A j \in 1..(i - 1) : ~AllWithin(iterates, j, config.Tolerance)
    ELSE config.MaxIter

\* C23: every KMeans call with len(points) >= K, for a number K >= 1 of
\* clusters, returns, and returns the clusters as they are after the first
\* iteration in which every centroid moved by a distance <= Tolerance, or
\* after MaxIter iterations, whichever comes first.
C23_Stops ==
    (kpc # "ready" /\ Len(kpoints) >= kconfig.K /\ kconfig.K >= 1) =>
        /\ kpc = "done"
        /\ ~kout.nil
        /\ \A iterates \in {Iterates(kpoints, kconfig.K, kconfig.MaxIter)} :
            kout.clusters = iterates[LastIteration(iterates, kconfig) + 1]

\* the cluster, counted from 1, that lists the point of index j
ClusterOf(clusters, j) ==
    CHOOSE c \in 1..Len(clusters) :
        \E k \in 1..Len(clusters[c].Points) : clusters[c].Points[k].Original = j

\* the distances from point to the centroids of clusters
DistancesTo(point, clusters) ==
    [c \in 1..Len(clusters) |-> euclideanDistance(point.Features, clusters[c].Centroid)]

\* point, at the distances dist from the centroids, belongs in cluster c: c
\* is at the least of the distances that are numbers, and no cluster before c
\* is; c is the first cluster when no distance is a number
IsNearestLowest(dist, c) ==
    \A measured \in {{ o \in DOMAIN dist : ~IsNaN(dist[o]) }} :
        IF measured = {} THEN c = 1
        ELSE /\ c \in measured
             /\ \A o \in measured : ~Less(dist[o], dist[c])
             /\ \A o \in measured : o < c => dist[o] # dist[c]

\* C24: in the assignment step of every iteration, every point goes to a
\* cluster whose centroid is at the least of its distances to the centroids,
\* and to the lowest-indexed of the clusters at that distance.
C24_NearestLowest ==
    (kpc = "done" /\ Len(kpoints) >= kconfig.K /\ kconfig.K >= 1) =>
        \A iterates \in {Iterates(kpoints, kconfig.K, kconfig.MaxIter)} :
            \A i \in 1..kconfig.MaxIter : \A j \in 1..Len(kpoints) :
                \A dist \in {DistancesTo(kpoints[j], iterates[i])} :
                    IsNearestLowest(dist, ClusterOf(iterates[i + 1], j))

\* a call has returned after an assignment step in which a point was at the
\* same least distance from two centroids
C24_Witness ==
    /\ kpc = "done" /\ kconfig.K = 2 /\ kconfig.MaxIter >= 1 /\ Len(kpoints) >= 2
    /\ \E iterates \in {Iterates(kpoints, kconfig.K, 1)} :
        \E j \in 1..Len(kpoints) :
            \E dist \in {DistancesTo(kpoints[j], iterates[1])} :
                /\ ~IsNaN(dist[1])
                /\ dist[1] = dist[2]
                /\ ClusterOf(iterates[2], j) = 1

\* the sum of the values
RECURSIVE SumOf(_)
SumOf(values) == IF values = <<>> THEN FInt(0) ELSE Add(Head(values), SumOf(Tail(values)))

\* the arithmetic mean, dimension by dimension, of the feature vectors of
\* points, of which there is one at least
MeanVector(points) ==
    [j \in 1..Len(points[1].Features) |->
        Div(SumOf([k \in 1..Len(points) |-> points[k].Features[j]]), FInt(Len(points)))]

\* C25: in the update step of every iteration, a cluster that received no
\* point keeps the centroid it had, and a cluster that received points gets
\* the mean of their feature vectors, dimension by dimension.
C25_Update ==
    (kpc = "done" /\ Len(kpoints) >= kconfig.K /\ kconfig.K >= 1) =>
        \A iterates \in {Iterates(kpoints, kconfig.K, kconfig.MaxIter)} :
            \A i \in 1..kconfig.MaxIter : \A c \in 1..kconfig.K :
                \A before \in {iterates[i][c]}, after \in {iterates[i + 1][c]} :
                    IF Len(after.Points) = 0
                    THEN after.Centroid = before.Centroid
                    ELSE after.Centroid = MeanVector(after.Points)

\* a call has returned after an iteration that gave one cluster no point and
\* moved the centroid of another
C25_Witness ==
    /\ kpc = "done" /\ kconfig.K = 2 /\ kconfig.MaxIter >= 1 /\ Len(kpoints) >= 2
    /\ \E iterates \in {Iterates(kpoints, kconfig.K, 1)} :
        /\ Len(iterates[2][2].Points) = 0
        /\ iterates[2][2].Centroid = iterates[1][2].Centroid
        /\ Len(iterates[2][1].Points) >= 2
        /\ iterates[2][1].Centroid # iterates[1][1].Centroid

\* C30: in the clusters a KMeans call returns after at least one iteration
\* (len(points) >= K, MaxIter >= 1), every cluster that lists a point has
\* for centroid the mean of the feature vectors of the points it lists.
C30_CentroidIsMean ==
    (kpc = "done" /\ Len(kpoints) >= kconfig.K /\ kconfig.K >= 1 /\ kconfig.MaxIter >= 1) =>
        \A c \in 1..Len(kout.clusters) :
            Len(kout.clusters[c].Points) > 0 =>
                kout.clusters[c].Centroid = MeanVector(kout.clusters[c].Points)

\* a call has returned, after a second iteration that moved a point, two
\* clusters with points
C30_Witness ==
    /\ kpc = "done" /\ kconfig.K = 2 /\ kconfig.MaxIter >= 2
    /\ Len(kout.clusters) = 2
    /\ Len(kout.clusters[1].Points) > 0
    /\ Len(kout.clusters[2].Points) > 0
    /\ \E iterates \in {Iterates(kpoints, kconfig.K, 2)} :
        /\ kout.clusters = iterates[3]
        /\ Len(iterates[2][1].Points) # Len(iterates[3][1].Points)

\* C26: every entry of the map of baselines holds the K clusters of a
\* completed KMeans, and a LearnBaseline whose KMeans returned nil has left
\* the entry of its service as it was.
C26_CompletedFit ==
    /\ \A e \in Entities :
          baselines[e].exists => Len(baselines[e].clusters) = dconfig.K
    /\ (/\ Returned("LearnBaseline")
        /\ dcall.err = ""
        /\ KMeansNil(ExtractFeatures(dcall.points, dconfig.WindowSize), dconfig)) =>
            baselines[dcall.serviceName] = dcall.had

\* C27: no goroutine ever waits to get at the map of baselines: a goroutine
\* about to write or read it can begin at once, whatever the others are
\* inside.
C27_NoLock ==
    ~crashed =>
        \A g \in Goroutines :
            /\ gpc[g] = "assign" => ENABLED MapAssignBegin(g)
            /\ gpc[g] = "access" => ENABLED MapAccessBegin(g)

\* a LearnBaseline is inside its write of the map while a DetectAnomalies for
\* the same service is inside its read, and both are marked as racing
C27_Witness ==
    \E g \in Goroutines, o \in Goroutines :
        /\ g # o
        /\ gpc[g] = "assigning" /\ gcall[g].op = "LearnBaseline"
        /\ gpc[o] = "accessing" /\ gcall[o].op = "DetectAnomalies"
        /\ gcall[g].serviceName = gcall[o].serviceName
        /\ {g, o} \subseteq racing

\* two LearnBaseline calls for the same service are inside their writes of
\* the map at once
TwoWritesOverlap ==
    \E g \in Goroutines, o \in Goroutines :
        /\ g # o
        /\ gpc[g] = "assigning" /\ gpc[o] = "assigning"
        /\ gcall[g].serviceName = gcall[o].serviceName

\* goroutine t holds the mutex of some series
HoldsSeriesLock(t) ==
    \E k \in DOMAIN series : series[k].mutex.writer = t \/ t \in series[k].mutex.readers

\* no goroutine that holds the mutex of a series waits for the mutex of the
\* Storage
LockOrder ==
    \A t \in Threads : HoldsSeriesLock(t) => pc[t] \notin {"lock", "rlock"}

\* C28: a goroutine takes the mutex of the Storage before the mutex of a
\* series and never the other way round, and every call of Store, GetSeries,
\* GetTimeRange and GetLatestN returns, in every fair interleaving.
C28_NoDeadlock ==
    /\ []LockOrder
    /\ \A t \in Threads : (pc[t] # "idle") ~> (pc[t] = "idle")

\* a writer that holds the mutex of the Storage waits for the mutex of a
\* series that a reader holds, after the other writer's Store has returned
C28_Witness ==
    \E w \in Writers, o \in Writers, r \in Readers :
        /\ pc[w] = "lockSeries" /\ smutex.writer = w
        /\ r \in series[local[w].key].mutex.readers
        /\ pc[o] = "idle" /\ nstores = MaxStores

\* what GetSeries, GetTimeRange and GetLatestN return for the pair target when
\* the map of series is s
ResultsFor(s, target) ==
    [exists |-> Key(target[1], target[2]) \in DOMAIN s,
     Points |-> PointsOf(s, Key(target[1], target[2])),
     range |-> [start \in StartArgs, end \in EndArgs |->
                   TimeRangeOf(PointsOf(s, Key(target[1], target[2])), start, end)],
     latest |-> [n \in NArgs |-> LatestNOf(PointsOf(s, Key(target[1], target[2])), n)]]

\* C29: a step of Store(e1, m1, ...) that creates the series or appends the
\* point leaves what GetSeries, GetTimeRange and GetLatestN return for every
\* other pair (e2, m2) as it was.
C29_Isolated ==
    [][\A t \in Writers :
          (pc[t] \in {"create", "assign"} /\ pc'[t] # pc[t]) =>
              \A target \in Targets \ {<<args[t].serviceName, args[t].metric>>} :
                  ResultsFor(series', target) = ResultsFor(series, target)]_vars

\* the same for the pairs whose composite key differs from that of (e1, m1)
IsolatedByKey ==
    [][\A t \in Writers :
          (pc[t] \in {"create", "assign"} /\ pc'[t] # pc[t]) =>
              \A target \in Targets :
                  Key(target[1], target[2]) # local[t].key =>
                      ResultsFor(series', target) = ResultsFor(series, target)]_vars

====
